---- MODULE Spec2Model ----
(***************************************************************************)
(* Model of the ps5-uart bridge (src/uart/ps5_uart.cpp): the interrupt-fed *)
(* ring buffer, the checksummed line protocol, the request/response cycle  *)
(* and the unlock state machine.                                           *)
(*                                                                         *)
(* Bytes are integers 0..255; a std::string / std::vector<u8> is a         *)
(* sequence of bytes.  The auxiliary controller (EMC) is the environment.  *)
(*                                                                         *)
(* Three specifications share the module:                                  *)
(*   SpecBuf  Buffer<N> alone: byte-level push (interrupt) against the     *)
(*            consumer operations read_line / read_buf / clear.            *)
(*   SpecCmd  cmd_send / cmd_send_recv on top of the ring buffer, against  *)
(*            a microsecond clock and an arbitrary EMC.                    *)
(*   Spec     the unlock state machine (autorun) and the constants         *)
(*            registry; each cmd_send_recv is one step whose Result the    *)
(*            EMC decides.                                                 *)
(***************************************************************************)
EXTENDS Integers, Sequences, FiniteSets, TLC

(***************************************************************************)
(* Bounds of the model                                                     *)
(***************************************************************************)
\* Buffer<2^BufBits> is the instance explored byte by byte in SpecBuf.
BufBits == 2
\* Buffer<2^CmdBufBits> is the instance behind cmd_send / cmd_send_recv in SpecCmd.
CmdBufBits == 5
\* Bytes the producer pushes in one behaviour of SpecBuf.
MaxPush == 6
\* Longest raw drain requested from read_buf in SpecBuf.
MaxReadLen == 2
\* Lines the EMC emits in one behaviour of SpecCmd.
MaxLines == 3
\* The clock of SpecCmd is time_us_32() reduced to TimeBits bits.
TimeBits == 2
\* Microseconds per tick of the model's clock.
TickUs == 5000
\* Bytes of the longest raw line handed to validate_line in SpecValidate.
MaxChars == 5
\* Pieces of the longest line handed to Result::from_str in SpecFromStr.
MaxWords == 4
\* Pieces of the longest response of a Result formatted in SpecFormat.
MaxResp == 3
\* Pieces of lines the EMC sends in one behaviour of SpecRelay.
MaxPieces == 8

\* size_t counters wrap modulo 2^SizeBits (32 bits on the target; the model
\* checker's integers stop at 2^31 - 1).
SizeBits == 16
SizeMod == 2 ^ SizeBits

Byte == 0..255
LF == 10
CR == 13
COLON == 58
SPACE == 32

(***************************************************************************)
(* Sequence helpers                                                        *)
(***************************************************************************)
RECURSIVE SumBytes(_)
SumBytes(s) ==
    IF s = <<>> THEN 0 ELSE Head(s) + SumBytes(Tail(s))

RECURSIVE CountByte(_, _)
CountByte(s, b) ==
    IF s = <<>> THEN 0
    ELSE (IF Head(s) = b THEN 1 ELSE 0) + CountByte(Tail(s), b)

Max(a, b) == IF a >= b THEN a ELSE b
Min(a, b) == IF a <= b THEN a ELSE b

starts_with(s, p) ==
    /\ Len(s) >= Len(p)
    /\ SubSeq(s, 1, Len(p)) = p

(***************************************************************************)
(* string_utils.h (not part of src/): hex digits                           *)
(***************************************************************************)
IsHexDigit(c) ==
    \/ c \in 48..57
    \/ c \in 65..70
    \/ c \in 97..102

HexVal(c) ==
    IF c \in 48..57 THEN c - 48
    ELSE IF c \in 65..70 THEN c - 55
    ELSE c - 87

\* std::format("{:X}") of one nibble
HexChar(n) == IF n < 10 THEN 48 + n ELSE 55 + n

\* std::format("{:02X}", u8)
Hex02(b) == <<HexChar(b \div 16), HexChar(b % 16)>>

RECURSIVE HexToNat(_)
HexToNat(s) ==
    IF s = <<>> THEN 0
    ELSE 16 * HexToNat(SubSeq(s, 1, Len(s) - 1)) + HexVal(s[Len(s)])

HexPairs(s) ==
    [i \in 1..(Len(s) \div 2) |-> 16 * HexVal(s[2 * i - 1]) + HexVal(s[2 * i])]

\* hex2buf(view, &out): an even number of hex digits decodes to bytes
hex2buf(s) ==
    IF Len(s) % 2 = 0 /\ \A i \in 1..Len(s) : IsHexDigit(s[i])
    THEN [ok |-> TRUE, buf |-> HexPairs(s)]
    ELSE [ok |-> FALSE, buf |-> <<>>]

RECURSIVE strip_trailing_crlf(_)
strip_trailing_crlf(s) ==
    IF s # <<>> /\ s[Len(s)] \in {CR, LF}
    THEN strip_trailing_crlf(SubSeq(s, 1, Len(s) - 1))
    ELSE s

(***************************************************************************)
(* checksum / validate_line                                                *)
(***************************************************************************)
checksum(buf) == SumBytes(buf) % 256

\* std::string::find_last_of(':'): 0-based position, -1 for npos
RECURSIVE find_last_of(_, _)
find_last_of(s, c) ==
    IF s = <<>> THEN -1
    ELSE IF s[Len(s)] = c THEN Len(s) - 1
    ELSE find_last_of(SubSeq(s, 1, Len(s) - 1), c)

\* validate_line without the comparison of the checksum
validate_line_mut_nocsum(line) ==
    IF line = <<>> THEN [ok |-> FALSE, line |-> line]
    ELSE
      LET l == strip_trailing_crlf(line)
          last_colon == find_last_of(l, COLON)
      IN  IF last_colon = -1 \/ last_colon + 3 # Len(l)
          THEN [ok |-> FALSE, line |-> l]
          ELSE
            LET csum == hex2buf(SubSeq(l, last_colon + 2, Len(l)))
            IN  IF ~csum.ok THEN [ok |-> FALSE, line |-> l]
                ELSE [ok |-> TRUE, line |-> SubSeq(l, 1, last_colon)]

\* validate_line(&line): [ok, line]; line is the string as the callee leaves it
validate_line(line) ==
    IF line = <<>> THEN [ok |-> FALSE, line |-> line]
    ELSE
      LET l == strip_trailing_crlf(line)
          last_colon == find_last_of(l, COLON)
      IN  IF last_colon = -1 \/ last_colon + 3 # Len(l)
          THEN [ok |-> FALSE, line |-> l]
          ELSE
            LET csum == hex2buf(SubSeq(l, last_colon + 2, Len(l)))
            IN  IF ~csum.ok THEN [ok |-> FALSE, line |-> l]
                ELSE IF csum.buf[1] # checksum(SubSeq(l, 1, last_colon))
                THEN [ok |-> FALSE, line |-> l]
                ELSE [ok |-> TRUE, line |-> SubSeq(l, 1, last_colon)]

(***************************************************************************)
(* Buffer<BufferSize>: a value b = [wpos, rpos, num_newlines, buffer];     *)
(* b.buffer is a sequence of BufferSize bytes, slot i of the array being   *)
(* b.buffer[i + 1].                                                        *)
(***************************************************************************)
BufferSize(b) == Len(b.buffer)

NewBuffer(size) ==
    [wpos |-> 0, rpos |-> 0, num_newlines |-> 0,
     buffer |-> [i \in 1..size |-> 0]]

len_mask(b) == BufferSize(b) - 1

\* (val + addend) & len_mask(), BufferSize a power of two
add(b, val, addend) == (val + addend) % (len_mask(b) + 1)

read_available(b) ==
    IF b.wpos >= b.rpos THEN b.wpos - b.rpos
    ELSE BufferSize(b) - b.rpos + b.wpos

\* empty that also reports a full buffer as empty
empty_mut_orfull(b) == b.rpos = b.wpos \/ add(b, b.wpos, 1) = b.rpos

empty(b) == b.rpos = b.wpos

\* The bytes between the read index and the write index, oldest first.
Stored(b) ==
    [i \in 1..read_available(b) |-> b.buffer[add(b, b.rpos, i - 1) + 1]]

\* push(b): runs in interrupt context, atomic for the consumer
push_mut_overwrite(b, c) ==
    [b EXCEPT !.buffer = [@ EXCEPT ![b.wpos + 1] = c],
              !.wpos = add(b, b.wpos, 1),
              !.num_newlines = IF c = LF THEN (@ + 1) % SizeMod ELSE @]

push(b, c) ==
    LET wpos_next == add(b, b.wpos, 1)
        b1 == IF wpos_next = b.rpos THEN b
              ELSE [b EXCEPT !.buffer = [@ EXCEPT ![b.wpos + 1] = c],
                             !.wpos = wpos_next]
    IN  [b1 EXCEPT !.num_newlines = IF c = LF THEN (@ + 1) % SizeMod ELSE @]

\* uart_rx_handler: try_read hands every byte the UART holds to push
RECURSIVE uart_rx_handler(_, _)
uart_rx_handler(b, bytes) ==
    IF bytes = <<>> THEN b
    ELSE uart_rx_handler(push(b, Head(bytes)), Tail(bytes))

\* The scan of read_line's critical section with num_newlines left alone
RECURSIVE read_line_scan_mut_nodec(_, _, _, _)
read_line_scan_mut_nodec(b, i, avail, scanned) ==
    IF i >= avail THEN [got_line |-> FALSE, b |-> b, scanned |-> scanned]
    ELSE
      LET cpos == add(b, b.rpos, i)
          c == b.buffer[cpos + 1]
      IN  IF c = LF
          THEN [got_line |-> TRUE,
                b |-> [b EXCEPT !.rpos = add(b, cpos, 1)],
                scanned |-> scanned]
          ELSE read_line_scan_mut_nodec(b, i + 1, avail, Append(scanned, c))

\* The scan of read_line's critical section, from offset i of avail:
\* [got_line, b, scanned]; scanned are the bytes copied before the newline.
RECURSIVE read_line_scan(_, _, _, _)
read_line_scan(b, i, avail, scanned) ==
    IF i >= avail THEN [got_line |-> FALSE, b |-> b, scanned |-> scanned]
    ELSE
      LET cpos == add(b, b.rpos, i)
          c == b.buffer[cpos + 1]
      IN  IF c = LF
          THEN [got_line |-> TRUE,
                b |-> [b EXCEPT !.num_newlines = (@ - 1) % SizeMod,
                                !.rpos = add(b, cpos, 1)],
                scanned |-> scanned]
          ELSE read_line_scan(b, i + 1, avail, Append(scanned, c))

\* The part of read_line behind the fast reject: the critical section, then
\* validate_line on the caller's string.  [ret, line, b, got_line, scanned]
read_line_locked_mut_norpos(b, line) ==
    LET s == read_line_scan(b, 0, read_available(b), <<>>)
        v == validate_line(line \o s.scanned)
        b1 == [s.b EXCEPT !.rpos = IF s.got_line
                                   THEN add(b, s.b.rpos, BufferSize(b) - 1)
                                   ELSE @]
    IN  IF s.got_line /\ v.ok
        THEN [ret |-> TRUE, line |-> v.line, b |-> b1,
              got_line |-> TRUE, scanned |-> s.scanned]
        ELSE [ret |-> FALSE, line |-> <<>>, b |-> b1,
              got_line |-> s.got_line, scanned |-> s.scanned]

read_line_locked(b, line) ==
    LET s == read_line_scan(b, 0, read_available(b), <<>>)
        v == validate_line(line \o s.scanned)
    IN  IF s.got_line /\ v.ok
        THEN [ret |-> TRUE, line |-> v.line, b |-> s.b,
              got_line |-> TRUE, scanned |-> s.scanned]
        ELSE [ret |-> FALSE, line |-> <<>>, b |-> s.b,
              got_line |-> s.got_line, scanned |-> s.scanned]

\* read_line that also rejects when a single newline is pending
read_line_mut_reject1(b, line) ==
    IF b.num_newlines <= 1 \/ empty(b)
    THEN [ret |-> FALSE, line |-> line, b |-> b,
          got_line |-> FALSE, scanned |-> <<>>]
    ELSE read_line_locked(b, line)

\* read_line(&line) as one step (no interrupt between its reads)
read_line(b, line) ==
    IF b.num_newlines = 0 \/ empty(b)
    THEN [ret |-> FALSE, line |-> line, b |-> b,
          got_line |-> FALSE, scanned |-> <<>>]
    ELSE read_line_locked(b, line)

\* read_buf(buf, len): [b, out]
RECURSIVE read_buf_loop(_, _, _)
read_buf_loop(b, n, out) ==
    IF n = 0 THEN [b |-> b, out |-> out]
    ELSE
      LET c == b.buffer[b.rpos + 1]
          b1 == [b EXCEPT !.num_newlines = IF c = LF THEN (@ - 1) % SizeMod ELSE @,
                          !.rpos = add(b, b.rpos, 1)]
      IN  read_buf_loop(b1, n - 1, Append(out, c))

read_buf(b, len) == read_buf_loop(b, Min(len, read_available(b)), <<>>)

\* clear that resets the counter and leaves the indexes alone
clear_mut_countonly(b) == [b EXCEPT !.num_newlines = 0]

clear(b) == [b EXCEPT !.wpos = 0, !.rpos = 0, !.num_newlines = 0]

(***************************************************************************)
(* u32 values are pairs <<high 16 bits, low 16 bits>>: the status codes    *)
(* exceed the model checker's integers.                                    *)
(***************************************************************************)
U32(hi, lo) == <<hi, lo>>

\* int_from_hex<u32>(str, offset): the 8 characters at offset, all hex digits
int_from_hex_u32(str, offset) ==
    IF /\ Len(str) >= offset + 8
       /\ \A i \in (offset + 1)..(offset + 8) : IsHexDigit(str[i])
    THEN [has_value |-> TRUE,
          value |-> U32(HexToNat(SubSeq(str, offset + 1, offset + 4)),
                        HexToNat(SubSeq(str, offset + 5, offset + 8)))]
    ELSE [has_value |-> FALSE, value |-> U32(0, 0)]

\* std::format("{:04X}") of one 16-bit half
Hex04(h) == Hex02(h \div 256) \o Hex02(h % 256)

\* std::format("{:08X}", u32)
Hex08(v) == Hex04(v[1]) \o Hex04(v[2])

(***************************************************************************)
(* StatusCode                                                              *)
(***************************************************************************)
kSuccess == U32(0, 0)
kRxInputTooLong == U32(57344, 2)
kRxInvalidChar == U32(57344, 3)
kRxInvalidCsum == U32(57344, 4)
kUcmdEINVAL == U32(61440, 1)
kUcmdUnknownCmd == U32(61440, 6)
kEmcInReset == U32(57005, 0)
kFwConstsVersionFailed == U32(57005, 1)
kFwConstsVersionUnknown == U32(57005, 2)
kFwConstsInvalid == U32(57005, 3)
kSetPayloadTooLarge == U32(57005, 4)
kSetPayloadPuareq1Failed == U32(57005, 5)
kSetPayloadPuareq2Failed == U32(57005, 6)
kExploitVersionUnexpected == U32(57005, 7)
kExploitFailedEmcReset == U32(57005, 8)
kChipConstsInvalid == U32(57005, 9)
kRomFrame == U32(57005, 10)

(***************************************************************************)
(* ResultType and Result                                                   *)
(***************************************************************************)
kTimeout == 0
kUnknown == 1
kComment == 2
kInfo == 3
kOk == 4
kNg == 5

kInvalidStatus == U32(65535, 65535)

STR_A == <<65>>   \* "A"
STR_version == <<118, 101, 114, 115, 105, 111, 110>>   \* "version"
STR_getserialno == <<103, 101, 116, 115, 101, 114, 105, 97, 108, 110, 111>>   \* "getserialno"
STR_comment == <<35, 32, 99>>   \* "# c"
STR_ok == <<79, 75, 32, 48, 48, 48, 48, 48, 48, 48, 48>>   \* "OK 00000000"
STR_ng == <<78, 71, 32, 70, 48, 48, 48, 48, 48, 48, 54>>   \* "NG F0000006"
STR_OK_ == <<79, 75, 32>>   \* "OK "
STR_NG_ == <<78, 71, 32>>   \* "NG "
STR_hash_ == <<35, 32>>   \* "# "
STR_info_ == <<36, 36, 32>>   \* "$$ "
STR_timeout == <<116, 105, 109, 101, 111, 117, 116>>   \* "timeout"

MkResult(t, st, resp) == [type_ |-> t, status_ |-> st, response_ |-> resp]

new_timeout == MkResult(kTimeout, kInvalidStatus, <<>>)
new_unknown(str) == MkResult(kUnknown, kInvalidStatus, str)
new_ok(status, str) == MkResult(kOk, status, str)
new_ng(status, str) == MkResult(kNg, status, str)
new_success == new_ok(kSuccess, <<>>)

is_ok(r) == r.type_ = kOk
is_ng(r) == r.type_ = kNg
is_ok_or_ng(r) == is_ok(r) \/ is_ng(r)
is_ok_status(r, status) == is_ok(r) /\ r.status_ = status
is_ng_status(r, status) == is_ng(r) /\ r.status_ = status
is_success(r) == is_ok_status(r, kSuccess)

\* Result::from_str with the separator left in the response
from_str_mut_keepsep(str) ==
    IF Len(str) > 2 /\ starts_with(str, STR_hash_)
    THEN MkResult(kComment, kInvalidStatus, SubSeq(str, 3, Len(str)))
    ELSE IF Len(str) > 3 /\ starts_with(str, STR_info_)
    THEN MkResult(kInfo, kInvalidStatus, SubSeq(str, 4, Len(str)))
    ELSE
      LET status_offset == 2 + 1
          status_end == status_offset + 8
          isok == starts_with(str, STR_OK_)
          isng == starts_with(str, STR_NG_)
          status == int_from_hex_u32(str, status_offset)
      IN  IF Len(str) < status_end THEN new_unknown(str)
          ELSE IF ~isok /\ ~isng THEN new_unknown(str)
          ELSE IF ~status.has_value THEN new_unknown(str)
          ELSE IF Len(str) > status_end /\ str[status_end + 1] # SPACE
          THEN new_unknown(str)
          ELSE MkResult(IF isok THEN kOk ELSE kNg, status.value,
                        IF Len(str) > status_end
                        THEN SubSeq(str, status_end + 1, Len(str))
                        ELSE <<>>)

\* Result::from_str
from_str(str) ==
    IF Len(str) > 2 /\ starts_with(str, STR_hash_)
    THEN MkResult(kComment, kInvalidStatus, SubSeq(str, 3, Len(str)))
    ELSE IF Len(str) > 3 /\ starts_with(str, STR_info_)
    THEN MkResult(kInfo, kInvalidStatus, SubSeq(str, 4, Len(str)))
    ELSE
      LET status_offset == 2 + 1
          status_end == status_offset + 8
          isok == starts_with(str, STR_OK_)
          isng == starts_with(str, STR_NG_)
          status == int_from_hex_u32(str, status_offset)
      IN  IF Len(str) < status_end THEN new_unknown(str)
          ELSE IF ~isok /\ ~isng THEN new_unknown(str)
          ELSE IF ~status.has_value THEN new_unknown(str)
          ELSE IF Len(str) > status_end /\ str[status_end + 1] # SPACE
          THEN new_unknown(str)
          ELSE MkResult(IF isok THEN kOk ELSE kNg, status.value,
                        IF Len(str) > status_end
                        THEN SubSeq(str, status_end + 2, Len(str))
                        ELSE <<>>)

\* Result::format with the space ahead of the response left out
format_mut_nosep(r) ==
    IF is_ok_or_ng(r)
    THEN (IF is_ok(r) THEN <<79, 75>> ELSE <<78, 71>>)
         \o <<SPACE>> \o Hex08(r.status_) \o r.response_
    ELSE IF r.type_ = kComment THEN STR_hash_ \o r.response_
    ELSE IF r.type_ = kInfo THEN STR_info_ \o r.response_
    ELSE IF r.type_ = kUnknown THEN r.response_
    ELSE STR_timeout

\* Result::format
format(r) ==
    IF is_ok_or_ng(r)
    THEN (IF is_ok(r) THEN <<79, 75>> ELSE <<78, 71>>)
         \o <<SPACE>> \o Hex08(r.status_) \o <<SPACE>> \o r.response_
    ELSE IF r.type_ = kComment THEN STR_hash_ \o r.response_
    ELSE IF r.type_ = kInfo THEN STR_info_ \o r.response_
    ELSE IF r.type_ = kUnknown THEN r.response_
    ELSE STR_timeout

\* cmd_send: cmdline + std::format(":{:02X}\n", checksum(cmdline))
Frame(cmdline) == cmdline \o <<COLON>> \o Hex02(checksum(cmdline)) \o <<LF>>

\* A line whose checksum byte was altered on the way.
BadFrame(text) ==
    text \o <<COLON>> \o Hex02((checksum(text) + 1) % 256) \o <<LF>>

(***************************************************************************)
(* State                                                                   *)
(***************************************************************************)
VARIABLES
    \* SpecBuf: one Buffer<2^BufBits> and its single consumer
    rb,          \* the Buffer
    rl_pc,       \* where the consumer stands inside read_line
    rl_line,     \* the caller's std::string handed to read_line
    rl_ret,      \* what the last read_line returned
    accepted,    \* history: the bytes push stored, in order
    dropped,     \* history: pushes made while the buffer was full
    taken,       \* history: the bytes the consumer removed, in order
    lineOnly,    \* history: read_line is the only consumer operation used so far
    \* SpecCmd: UcmdClientEmc::cmd_send / cmd_send_recv
    uart_rx_,    \* UcmdClientEmc::uart_rx_
    uart_tx,     \* the bytes of the last write_str_blocking
    now,         \* time_us_32(), in ticks of TickUs, TimeBits wide
    c_pc,        \* where the client stands
    c_kind,      \* the call in progress: "send" (cmd_send) or "sendrecv"
    wait_echo,   \* parameter wait_echo of cmd_send
    cmdline,     \* parameter cmdline
    readback,    \* cmd_send's local std::string readback
    line,        \* read_result's local std::string line
    rlt_start,   \* read_line_timeout's local start
    rlt_timeout, \* read_line_timeout's parameter timeout_us
    c_sent,      \* what cmd_send returned
    c_result,    \* what cmd_send_recv returned
    emcSent,     \* history: lines the EMC has emitted
    echoSeen,    \* history: the echo wait consumed a checksum-valid line equal to cmdline
    okngFirst,   \* history: first checksum-valid Ok/Ng line the result wait consumed
    nOther,      \* history: other checksum-valid lines the current wait consumed
    waitElapsed, \* history: ticks since the current wait began
    \* Spec: process_cmd, autorun and set_fw_consts
    u_pc,              \* where process_cmd / autorun stands
    fw_constants_map,  \* the registry: version string -> FwConstants
    fw_consts_valid_,  \* UcmdClientEmc::fw_consts_valid_
    fw_consts_,        \* UcmdClientEmc::fw_consts_
    chip_consts_,      \* UcmdClientEmc::chip_consts_
    u_result,          \* process_cmd's local result
    host_out,          \* the Results cdc_write sent for the current host command
    payload,           \* craft_and_set_payload's local payload
    pos,               \* set_payload's loop variable pos
    idx,               \* set_payload's loop variable idx
    oob_queue,         \* the write_oob calls overwrite_cmd_table_ptr has still to make
    ev,                \* history: <<operation, caller>> of this invocation, in order
    p2Log,             \* history: [index, chunk] of each puareq2 of this invocation
    ackLog,            \* history: [type_, status_] of what each puareq1 and puareq2 of
                       \* this invocation returned, in order
    oobLog,            \* history: [filler_len, output2] of each write_oob of this invocation
    probe1,            \* history: what the first is_unlocked of this invocation returned
    failedStage,       \* history: the stage that failed in this invocation
    valid0,            \* history: fw_consts_valid_ when this invocation began
    reset0,            \* history: what reset_.is_reset() returned when this invocation began
    consts0,           \* history: fw_consts_ when this invocation began
    setupDone,         \* history: an invocation since the last registry update
                       \* completed resolve_constants and craft_and_set_payload
    setupDone0,        \* history: setupDone when this invocation began
    in_rom_,           \* UcmdClientEmc::in_rom_
    baudrate,          \* the baud rate of uart_
    rom_gpio_low,      \* rom_gpio_ is driven low
    lastRom,           \* history: the last picoemcrom line whose result was success
    host_cmd,          \* history: the line process_cmd was last called with
    host_type,         \* history: what parse_command_type returned for it
    host_rom0,         \* history: in_rom_ when process_cmd was called with it
    pt_out,            \* history: what process_cmd itself wrote to the UART for it
    \* SpecCdc: cdc_process
    cdc_frame,         \* the bytes of the last cdc_write of cdc_process, <<>> if its last pass wrote none
    cdc_drained,       \* history: the bytes the last pass of cdc_process took from uart_rx_
    cdc_rom,           \* history: in_rom_ during that pass
    \* SpecValidate, SpecFromStr: validate_line and Result::from_str on a line
    pf_line,           \* the line, as received so far
    pf_n,              \* history: the pieces it was received in
    pf_op,             \* the function applied to it, "none" before
    pf_ret,            \* what the function returned
    \* SpecRelay: the interrupt handler and the polling loop
    rx_n,              \* history: the pieces the EMC has sent
    rx_cur,            \* history: the line being received: [pushed, whole, stored]
    rx_log,            \* history: the lines received: [pushed, whole, lf_stored, stored]
    relayed            \* history: the frames cdc_process wrote to the host, in order

bufVars == <<rb, rl_pc, rl_line, rl_ret, accepted, dropped, taken,
             lineOnly>>

cmdVars == <<uart_rx_, uart_tx, now, c_pc, c_kind, wait_echo, cmdline, readback, line,
             rlt_start, rlt_timeout, c_sent, c_result, emcSent, echoSeen,
             okngFirst, nOther, waitElapsed>>

ulVars == <<u_pc, fw_constants_map, fw_consts_valid_, fw_consts_, chip_consts_,
            u_result, host_out, payload, pos, idx, oob_queue, ev, p2Log, ackLog, oobLog,
            probe1, failedStage, valid0, reset0, consts0, setupDone, setupDone0,
            in_rom_, baudrate, rom_gpio_low, lastRom, host_cmd, host_type,
            host_rom0, pt_out>>

hostVars == <<in_rom_, baudrate, rom_gpio_low, lastRom, host_cmd, host_type,
              host_rom0, pt_out>>

\* what process_cmd leaves alone unless the line is unlock
sessionVars == <<payload, pos, idx, oob_queue, p2Log, ackLog, oobLog, probe1, failedStage,
                 valid0, reset0, consts0, setupDone0>>

cdcVars == <<cdc_frame, cdc_drained, cdc_rom>>

pfVars == <<pf_line, pf_n, pf_op, pf_ret>>

rxVars == <<rx_n, rx_cur, rx_log>>

relayVars == <<rxVars, relayed>>

vars == <<bufVars, cmdVars, ulVars, cdcVars, pfVars, relayVars>>

(***************************************************************************)
(* SpecBuf: Buffer<2^BufBits>, producer in interrupt context against the   *)
(* polling consumer.  push, read_buf, clear and the critical section of    *)
(* read_line run with interrupts masked: each is one step.  The fast       *)
(* reject of read_line reads num_newlines and then the indices with        *)
(* interrupts enabled: a push can fall between them.                       *)
(***************************************************************************)
\* ':' '0' and the line terminator: enough for valid (":00") and invalid lines
BufBytes == {LF, COLON, 48}

BufInit ==
    /\ rb = NewBuffer(2 ^ BufBits)
    /\ rl_pc = "idle"
    /\ rl_line = <<>>
    /\ rl_ret = FALSE
    /\ accepted = <<>>
    /\ dropped = 0
    /\ taken = <<>>
    /\ lineOnly = TRUE

\* The interrupt handler pushes one received byte.
SBPush(c) ==
    /\ Len(accepted) + dropped < MaxPush
    /\ rb' = push(rb, c)
    /\ IF read_available(rb) = BufferSize(rb) - 1
       THEN /\ dropped' = dropped + 1
            /\ accepted' = accepted
       ELSE /\ dropped' = dropped
            /\ accepted' = Append(accepted, c)
    /\ UNCHANGED <<rl_pc, rl_line, rl_ret, taken, lineOnly>>
    /\ UNCHANGED <<relayVars, pfVars, cdcVars, cmdVars, ulVars>>

\* read_line entry: `!num_newlines`.  The caller passes a fresh string
\* (cdc_process) or the string of its previous call (cmd_send, read_result).
SBReadLineBegin(fresh) ==
    /\ rl_pc = "idle"
    /\ rl_line' = IF fresh THEN <<>> ELSE rl_line
    /\ IF rb.num_newlines = 0
       THEN rl_pc' = "idle" /\ rl_ret' = FALSE
       ELSE rl_pc' = "chk_empty" /\ rl_ret' = rl_ret
    /\ UNCHANGED <<rb, accepted, dropped, taken, lineOnly>>
    /\ UNCHANGED <<relayVars, pfVars, cdcVars, cmdVars, ulVars>>

\* read_line: `|| empty()`
SBReadLineEmpty ==
    /\ rl_pc = "chk_empty"
    /\ IF empty(rb)
       THEN rl_pc' = "idle" /\ rl_ret' = FALSE
       ELSE rl_pc' = "crit" /\ rl_ret' = rl_ret
    /\ UNCHANGED <<rb, rl_line, accepted, dropped, taken, lineOnly>>
    /\ UNCHANGED <<relayVars, pfVars, cdcVars, cmdVars, ulVars>>

\* read_line: the interrupt-masked scan, then validate_line
SBReadLineCritical ==
    /\ rl_pc = "crit"
    /\ LET r == read_line_locked(rb, rl_line)
       IN  /\ rb' = r.b
           /\ rl_line' = r.line
           /\ rl_ret' = r.ret
           /\ taken' = IF r.got_line THEN taken \o r.scanned \o <<LF>> ELSE taken
    /\ rl_pc' = "idle"
    /\ UNCHANGED <<accepted, dropped, lineOnly>>
    /\ UNCHANGED <<relayVars, pfVars, cdcVars, cmdVars, ulVars>>

SBReadBuf(len) ==
    /\ rl_pc = "idle"
    /\ LET r == read_buf(rb, len)
       IN  /\ rb' = r.b
           /\ taken' = taken \o r.out
    /\ lineOnly' = FALSE
    /\ UNCHANGED <<rl_pc, rl_line, rl_ret, accepted, dropped>>
    /\ UNCHANGED <<relayVars, pfVars, cdcVars, cmdVars, ulVars>>

SBClear ==
    /\ rl_pc = "idle"
    /\ taken' = taken \o Stored(rb)
    /\ lineOnly' = FALSE
    /\ rb' = clear(rb)
    /\ UNCHANGED <<rl_pc, rl_line, rl_ret, accepted, dropped>>
    /\ UNCHANGED <<relayVars, pfVars, cdcVars, cmdVars, ulVars>>

BufNext ==
    \/ \E c \in BufBytes : SBPush(c)
    \/ \E fresh \in BOOLEAN : SBReadLineBegin(fresh)
    \/ SBReadLineEmpty
    \/ SBReadLineCritical
    \/ \E len \in 1..MaxReadLen : SBReadBuf(len)
    \/ SBClear

\* Line mode: the consumer only calls read_line (cdc_process outside ROM
\* mode, main's loop calling it forever) and nothing calls read_buf or clear.
\* The critical section has no guard but the consumer's position: its step is
\* the one that takes the consumer from the critical section back to the
\* caller.
SBReadLineReturn == rl_pc = "crit" /\ rl_pc' = "idle"

SBReadLine ==
    \/ \E fresh \in BOOLEAN : SBReadLineBegin(fresh)
    \/ SBReadLineEmpty
    \/ SBReadLineReturn

BufLineNext ==
    \/ \E c \in BufBytes : SBPush(c)
    \/ \E fresh \in BOOLEAN : SBReadLineBegin(fresh)
    \/ SBReadLineEmpty
    \/ SBReadLineCritical

(***************************************************************************)
(* SpecCmd: cmd_send and cmd_send_recv over Buffer<2^CmdBufBits>.          *)
(* The EMC emits whole framed lines; the interrupt handler pushes a line's *)
(* bytes in one run (SpecBuf explores the byte-level interleavings).       *)
(* The clock advances in ticks of TickUs microseconds and wraps like the   *)
(* u32 of time_us_32().                                                    *)
(***************************************************************************)
TimeMod == 2 ^ TimeBits

\* time_us_32() - start, in ticks
Elapsed(t, start) == (t - start) % TimeMod

\* `time_us_32() - start < timeout_us`
InTime(t, start, timeout_us) == Elapsed(t, start) * TickUs < timeout_us

\* cmd_send: `const u32 timeout = cmd.size() * 200`
EchoTimeoutUs(cmd) == Len(Frame(cmd)) * 200

\* cmd_send_recv: default timeout_us
kDefaultTimeoutUs == 10000

\* The calls explored: cmd_send(hax_cmd_name_) as exploit_trigger makes it,
\* cmd_send(cmd, false) as process_cmd makes it, and version().
CmdCalls ==
    {<<"send", STR_A, TRUE>>, <<"send", STR_A, FALSE>>,
     <<"sendrecv", STR_version, TRUE>>}

\* What the EMC may put on the wire: echoes, a comment, an Ok and an Ng
\* response, each correctly framed, and an Ok response with a bad checksum.
EmcLines ==
    {Frame(t) : t \in {STR_A, STR_version, STR_comment, STR_ok, STR_ng}}
    \cup {BadFrame(STR_ok)}

WaitPcs == {"echo_rl", "echo_chk", "res_rl", "res_chk"}

CmdInit ==
    /\ uart_rx_ = NewBuffer(2 ^ CmdBufBits)
    /\ uart_tx = <<>>
    /\ now = 0
    /\ c_pc = "idle"
    /\ c_kind = "send"
    /\ wait_echo = TRUE
    /\ cmdline = <<>>
    /\ readback = <<>>
    /\ line = <<>>
    /\ rlt_start = 0
    /\ rlt_timeout = 0
    /\ c_sent = FALSE
    /\ c_result = new_timeout
    /\ emcSent = 0
    /\ echoSeen = FALSE
    /\ okngFirst = <<>>
    /\ nOther = 0
    /\ waitElapsed = 0

\* The EMC emits one line; rx_handler pushes its bytes.
EmcSendLine(l) ==
    /\ emcSent < MaxLines
    /\ emcSent' = emcSent + 1
    /\ uart_rx_' = uart_rx_handler(uart_rx_, l)
    /\ UNCHANGED <<uart_tx, now, c_pc, c_kind, wait_echo, cmdline, readback, line,
                   rlt_start, rlt_timeout, c_sent, c_result, echoSeen,
                   okngFirst, nOther, waitElapsed>>
    /\ UNCHANGED <<relayVars, pfVars, cdcVars, bufVars, ulVars>>

\* The microsecond clock advances.  A pass of a busy-wait loop is shorter
\* than the wrap period of the clock.
Tick ==
    /\ c_pc \in WaitPcs
    /\ Elapsed(now, rlt_start) < TimeMod - 1
    /\ now' = (now + 1) % TimeMod
    /\ waitElapsed' = Min(waitElapsed + 1, TimeMod - 1)
    /\ UNCHANGED <<uart_rx_, uart_tx, c_pc, c_kind, wait_echo, cmdline, readback, line,
                   rlt_start, rlt_timeout, c_sent, c_result, emcSent,
                   echoSeen, okngFirst, nOther>>
    /\ UNCHANGED <<relayVars, pfVars, cdcVars, bufVars, ulVars>>

\* cmd_send(cmdline, wait_echo), or cmd_send_recv(cmdline), up to the first
\* read_line_timeout: the framed command is written to the UART.
CmdCall(kind, cmd, we) ==
    /\ c_pc = "idle"
    /\ c_kind' = kind
    /\ wait_echo' = we
    /\ cmdline' = cmd
    /\ uart_tx' = Frame(cmd)
    /\ readback' = <<>>
    /\ IF we
       THEN /\ c_pc' = "echo_rl"
            /\ rlt_timeout' = EchoTimeoutUs(cmd)
            /\ rlt_start' = now
            /\ c_sent' = c_sent
       ELSE /\ c_pc' = "done"
            /\ c_sent' = TRUE
            /\ UNCHANGED <<rlt_timeout, rlt_start>>
    /\ waitElapsed' = 0
    /\ nOther' = 0
    /\ UNCHANGED <<uart_rx_, now, line, c_result, emcSent, echoSeen, okngFirst>>
    /\ UNCHANGED <<relayVars, pfVars, cdcVars, bufVars, ulVars>>

\* cmd_send: one read_line of the echo wait.
EchoReadLine ==
    /\ c_pc = "echo_rl"
    /\ LET r == read_line(uart_rx_, readback)
           alone == validate_line(r.scanned)
           isecho == r.got_line /\ alone.ok /\ alone.line = cmdline
       IN  /\ uart_rx_' = r.b
           /\ readback' = r.line
           /\ echoSeen' = (echoSeen \/ isecho)
           /\ nOther' = IF r.got_line /\ alone.ok /\ ~isecho
                        THEN nOther + 1 ELSE nOther
           /\ IF r.ret /\ r.line = cmdline
              THEN \* cmd_send returns true
                   /\ c_sent' = TRUE
                   /\ IF c_kind = "sendrecv"
                      THEN \* read_result(timeout_us) starts
                           /\ c_pc' = "res_rl"
                           /\ rlt_timeout' = kDefaultTimeoutUs
                           /\ rlt_start' = now
                           /\ waitElapsed' = 0
                      ELSE /\ c_pc' = "done"
                           /\ UNCHANGED <<rlt_timeout, rlt_start, waitElapsed>>
              ELSE IF r.ret
              THEN \* "discard": the while loop calls read_line(&readback, timeout) again
                   /\ c_pc' = "echo_rl"
                   /\ rlt_start' = now
                   /\ UNCHANGED <<rlt_timeout, c_sent, waitElapsed>>
              ELSE /\ c_pc' = "echo_chk"
                   /\ UNCHANGED <<rlt_timeout, rlt_start, c_sent, waitElapsed>>
    /\ line' = <<>>
    /\ UNCHANGED <<uart_tx, now, c_kind, wait_echo, cmdline, c_result, emcSent, okngFirst>>
    /\ UNCHANGED <<relayVars, pfVars, cdcVars, bufVars, ulVars>>

\* cmd_send: `while (time_us_32() - start < timeout_us)` of the echo wait.
EchoTimeCheck ==
    /\ c_pc = "echo_chk"
    /\ IF InTime(now, rlt_start, rlt_timeout)
       THEN /\ c_pc' = "echo_rl"
            /\ UNCHANGED <<c_sent, c_result>>
       ELSE \* cmd_send returns false; cmd_send_recv returns new_timeout()
            /\ c_pc' = "done"
            /\ c_sent' = FALSE
            /\ c_result' = IF c_kind = "sendrecv" THEN new_timeout ELSE c_result
    /\ UNCHANGED <<uart_rx_, uart_tx, now, c_kind, wait_echo, cmdline, readback, line,
                   rlt_start, rlt_timeout, emcSent, echoSeen, okngFirst,
                   nOther, waitElapsed>>
    /\ UNCHANGED <<relayVars, pfVars, cdcVars, bufVars, ulVars>>

\* read_result: one read_line of the result wait.
ResReadLine ==
    /\ c_pc = "res_rl"
    /\ LET r == read_line(uart_rx_, line)
           alone == validate_line(r.scanned)
           isokng == r.got_line /\ alone.ok /\ is_ok_or_ng(from_str(alone.line))
       IN  /\ uart_rx_' = r.b
           /\ line' = r.line
           /\ okngFirst' = IF isokng /\ okngFirst = <<>>
                           THEN <<from_str(alone.line)>> ELSE okngFirst
           /\ nOther' = IF r.got_line /\ alone.ok /\ ~isokng /\ okngFirst = <<>>
                        THEN nOther + 1 ELSE nOther
           /\ IF r.ret /\ is_ok_or_ng(from_str(r.line))
              THEN /\ c_pc' = "done"
                   /\ c_result' = from_str(r.line)
                   /\ UNCHANGED rlt_start
              ELSE IF r.ret
              THEN \* a diagnostic line: the while loop calls read_line(&line, timeout_us) again
                   /\ c_pc' = "res_rl"
                   /\ rlt_start' = now
                   /\ UNCHANGED c_result
              ELSE /\ c_pc' = "res_chk"
                   /\ UNCHANGED <<rlt_start, c_result>>
    /\ UNCHANGED <<uart_tx, now, c_kind, wait_echo, cmdline, readback, rlt_timeout,
                   c_sent, emcSent, echoSeen, waitElapsed>>
    /\ UNCHANGED <<relayVars, pfVars, cdcVars, bufVars, ulVars>>

\* read_result: `while (time_us_32() - start < timeout_us)` of the result wait.
ResTimeCheck ==
    /\ c_pc = "res_chk"
    /\ IF InTime(now, rlt_start, rlt_timeout)
       THEN /\ c_pc' = "res_rl"
            /\ UNCHANGED c_result
       ELSE /\ c_pc' = "done"
            /\ c_result' = new_timeout
    /\ UNCHANGED <<uart_rx_, uart_tx, now, c_kind, wait_echo, cmdline, readback, line,
                   rlt_start, rlt_timeout, c_sent, emcSent, echoSeen,
                   okngFirst, nOther, waitElapsed>>
    /\ UNCHANGED <<relayVars, pfVars, cdcVars, bufVars, ulVars>>

CmdNext ==
    \/ \E l \in EmcLines : EmcSendLine(l)
    \/ Tick
    \/ \E call \in CmdCalls : CmdCall(call[1], call[2], call[3])
    \/ EchoReadLine
    \/ EchoTimeCheck
    \/ ResReadLine
    \/ ResTimeCheck

(***************************************************************************)
(* Spec: process_cmd for `unlock` and `picofwconst`, and autorun.  Each    *)
(* cmd_send_recv is one step whose Result the EMC chooses (SpecCmd         *)
(* explores how a Result comes out of the bytes on the wire).              *)
(***************************************************************************)
STR_unlock == <<117, 110, 108, 111, 99, 107>>   \* "unlock"
STR_ok_v1 ==
    <<79, 75, 32, 48, 48, 48, 48, 48, 48, 48, 48, 32, 69, 49, 69, 32, 48, 48, 48, 49,
      32, 48, 48, 48, 48, 32, 48, 48, 48, 52, 32, 49, 51, 68, 48>>   \* "OK 00000000 E1E 0001 0000 0004 13D0"
STR_ok_vx ==
    <<79, 75, 32, 48, 48, 48, 48, 48, 48, 48, 48, 32, 69, 49, 69, 32, 48, 48, 48, 57>>   \* "OK 00000000 E1E 0009"
STR_ng_einval == <<78, 71, 32, 70, 48, 48, 48, 48, 48, 48, 49>>   \* "NG F0000001"
\* "picofwconst E1E.0009 0017DE9C 00BD"
STR_fwconst_plain ==
    <<112, 105, 99, 111, 102, 119, 99, 111, 110, 115, 116, 32, 69, 49, 69, 46, 48, 48,
      48, 57, 32, 48, 48, 49, 55, 68, 69, 57, 67, 32, 48, 48, 66, 68>>
\* "picofwconst E1E.0009 00170A00 00BD"
STR_fwconst_lf ==
    <<112, 105, 99, 111, 102, 119, 99, 111, 110, 115, 116, 32, 69, 49, 69, 46, 48, 48,
      48, 57, 32, 48, 48, 49, 55, 48, 65, 48, 48, 32, 48, 48, 66, 68>>
\* "picofwconst E1E.0009 0017DE9C"
STR_fwconst_short ==
    <<112, 105, 99, 111, 102, 119, 99, 111, 110, 115, 116, 32, 69, 49, 69, 46, 48, 48,
      48, 57, 32, 48, 48, 49, 55, 68, 69, 57, 67>>

\* "picofwconst E1E.0009 0017DE9C 00B500BF00BF00BF00BF00BF00BF00BF00BF00BF00BD": a shellcode of 22 bytes
STR_fwconst_22 ==
    <<112, 105, 99, 111, 102, 119, 99, 111, 110, 115, 116, 32, 69, 49, 69, 46, 48, 48,
      48, 57, 32, 48, 48, 49, 55, 68, 69, 57, 67, 32, 48, 48, 66, 53, 48, 48, 66, 70, 48,
      48, 66, 70, 48, 48, 66, 70, 48, 48, 66, 70, 48, 48, 66, 70, 48, 48, 66, 70, 48, 48,
      66, 70, 48, 48, 66, 70, 48, 48, 66, 70, 48, 48, 66, 68>>

\* fw_constants_map as compiled in
\* "E1E 0001 0000 0004 13D0" -> 0x1762e8
FwVersion1 ==
    <<69, 49, 69, 32, 48, 48, 48, 49, 32, 48, 48, 48, 48, 32, 48, 48, 48, 52, 32, 49, 51, 68, 48>>
FwShellcode1 ==
    <<0, 181, 71, 242, 0, 96, 192, 242, 21, 0, 67, 246, 224, 113, 192, 242, 23, 1, 8, 96, 1, 32,
      69, 242, 36, 113, 192, 242, 23, 1, 8, 96, 64, 246, 149, 113, 192, 242, 18, 1, 136, 71, 0, 189>>
FwEntry1 ==
    [ucmd_ua_buf_addr |-> U32(23, 25320), shellcode |-> FwShellcode1]

\* "E1E 0001 0002 0003 1580" -> 0x17de38
FwVersion2 ==
    <<69, 49, 69, 32, 48, 48, 48, 49, 32, 48, 48, 48, 50, 32, 48, 48, 48, 51, 32, 49, 53, 56, 48>>
FwShellcode2 ==
    <<0, 181, 74, 242, 48, 48, 192, 242, 21, 0, 74, 242, 236, 97, 192, 242, 23, 1, 8, 96, 1, 32,
      77, 242, 64, 33, 192, 242, 23, 1, 8, 96, 66, 246, 49, 1, 192, 242, 18, 1, 136, 71, 0, 189>>
FwEntry2 ==
    [ucmd_ua_buf_addr |-> U32(23, 56888), shellcode |-> FwShellcode2]

\* "E1E 0001 0004 0002 1752" -> 0x184d9c
FwVersion3 ==
    <<69, 49, 69, 32, 48, 48, 48, 49, 32, 48, 48, 48, 52, 32, 48, 48, 48, 50, 32, 49, 55, 53, 50>>
FwShellcode3 ==
    <<0, 181, 77, 242, 124, 48, 192, 242, 21, 0, 65, 242, 192, 17, 192, 242, 24, 1, 8, 96, 1, 32,
      67, 246, 20, 113, 192, 242, 24, 1, 8, 96, 68, 242, 9, 49, 192, 242, 18, 1, 136, 71, 0, 189>>
FwEntry3 ==
    [ucmd_ua_buf_addr |-> U32(24, 19868), shellcode |-> FwShellcode3]

\* "E1E 0001 0008 0002 1B03" -> 0x19261c
FwVersion4 ==
    <<69, 49, 69, 32, 48, 48, 48, 49, 32, 48, 48, 48, 56, 32, 48, 48, 48, 50, 32, 49, 66, 48, 51>>
FwShellcode4 ==
    <<0, 181, 69, 246, 232, 32, 192, 242, 22, 0, 78, 242, 144, 33, 192, 242, 24, 1, 8, 96, 1, 32,
      65, 242, 48, 113, 192, 242, 25, 1, 8, 96, 71, 246, 189, 17, 192, 242, 18, 1, 136, 71, 0, 189>>
FwEntry4 ==
    [ucmd_ua_buf_addr |-> U32(25, 9756), shellcode |-> FwShellcode4]

fw_constants_map_init ==
    [v \in {FwVersion1, FwVersion2, FwVersion3, FwVersion4} |->
       IF v = FwVersion1 THEN FwEntry1
       ELSE IF v = FwVersion2 THEN FwEntry2
       ELSE IF v = FwVersion3 THEN FwEntry3
       ELSE FwEntry4]

\* FwConstants{}
FwConstantsEmpty == [ucmd_ua_buf_addr |-> U32(0, 0), shellcode |-> <<>>]

salina_consts_ ==
    [filler_multiplier |-> 3, post_process_ms |-> 200, pwn_delay_us |-> 790]

\* u32 + n
AddU32(v, n) ==
    LET s == v[2] + n
    IN  U32((v[1] + (s \div 65536)) % 65536, s % 65536)

\* u32 | 1
OrOne(v) == U32(v[1], IF v[2] % 2 = 0 THEN v[2] + 1 ELSE v[2])

\* the bytes of a u32 in memory, and `(write_val >> (i * 8)) & 0xff` for i = 0..3
U32Bytes(v) == <<v[2] % 256, v[2] \div 256, v[1] % 256, v[1] \div 256>>

Zeros(n) == [i \in 1..n |-> 0]

\* split_string(str, delim)
RECURSIVE split_string_from(_, _, _, _)
split_string_from(str, delim, i, cur) ==
    LET ds == {j \in i..Len(str) : str[j] = delim}
    IN  IF ds = {} THEN <<cur \o SubSeq(str, i, Len(str))>>
        ELSE LET j == CHOOSE d \in ds : \A k \in ds : d <= k
             IN  <<cur \o SubSeq(str, i, j - 1)>>
                   \o split_string_from(str, delim, j + 1, <<>>)

split_string(str, delim) == split_string_from(str, delim, 1, <<>>)

\* std::map::insert_or_assign
insert_or_assign(map, key, value) ==
    [k \in (DOMAIN map) \cup {key} |-> IF k = key THEN value ELSE map[k]]

\* set_fw_consts that leaves fw_consts_valid_ and fw_consts_ alone
set_fw_consts_mut_keepcache(cmd, map, valid, consts) ==
    LET ng == [result |-> new_ng(kFwConstsInvalid, <<>>), map |-> map,
               fw_consts_valid_ |-> valid, fw_consts_ |-> consts]
        parts == split_string(cmd, SPACE)
    IN  IF Len(parts) # 4 THEN ng
        ELSE
          LET version == [i \in 1..Len(parts[2]) |->
                            IF parts[2][i] = 46 THEN SPACE ELSE parts[2][i]]
              buf_addr == int_from_hex_u32(parts[3], 0)
              shellcode == hex2buf(parts[4])
          IN  IF ~buf_addr.has_value \/ ~shellcode.ok THEN ng
              ELSE [result |-> new_success,
                    map |-> insert_or_assign(map, version,
                              [ucmd_ua_buf_addr |-> buf_addr.value,
                               shellcode |-> shellcode.buf]),
                    fw_consts_valid_ |-> valid,
                    fw_consts_ |-> consts]

\* set_fw_consts(cmd): the Result and the members it leaves behind
set_fw_consts(cmd, map, valid, consts) ==
    LET ng == [result |-> new_ng(kFwConstsInvalid, <<>>), map |-> map,
               fw_consts_valid_ |-> valid, fw_consts_ |-> consts]
        parts == split_string(cmd, SPACE)
    IN  IF Len(parts) # 4 THEN ng
        ELSE
          LET version == [i \in 1..Len(parts[2]) |->
                            IF parts[2][i] = 46 THEN SPACE ELSE parts[2][i]]
              buf_addr == int_from_hex_u32(parts[3], 0)
              shellcode == hex2buf(parts[4])
          IN  IF ~buf_addr.has_value \/ ~shellcode.ok THEN ng
              ELSE [result |-> new_success,
                    map |-> insert_or_assign(map, version,
                              [ucmd_ua_buf_addr |-> buf_addr.value,
                               shellcode |-> shellcode.buf]),
                    fw_consts_valid_ |-> FALSE,
                    fw_consts_ |-> FwConstantsEmpty]

\* resolve_constants with the cache flag ignored
resolve_constants_mut_nocache(valid, consts, map, r) ==
    IF ~is_success(r)
    THEN [result |-> new_ng(kFwConstsVersionFailed, format(r)), queried |-> TRUE,
          fw_consts_valid_ |-> valid, fw_consts_ |-> consts]
    ELSE IF r.response_ \notin DOMAIN map
    THEN [result |-> new_ng(kFwConstsVersionUnknown, r.response_), queried |-> TRUE,
          fw_consts_valid_ |-> valid, fw_consts_ |-> consts]
    ELSE [result |-> new_success, queried |-> TRUE,
          fw_consts_valid_ |-> TRUE, fw_consts_ |-> map[r.response_]]

\* resolve_constants; r is what version() returns if it is called
resolve_constants(valid, consts, map, r) ==
    IF valid
    THEN [result |-> new_success, queried |-> FALSE,
          fw_consts_valid_ |-> valid, fw_consts_ |-> consts]
    ELSE IF ~is_success(r)
    THEN [result |-> new_ng(kFwConstsVersionFailed, format(r)), queried |-> TRUE,
          fw_consts_valid_ |-> valid, fw_consts_ |-> consts]
    ELSE IF r.response_ \notin DOMAIN map
    THEN [result |-> new_ng(kFwConstsVersionUnknown, r.response_), queried |-> TRUE,
          fw_consts_valid_ |-> valid, fw_consts_ |-> consts]
    ELSE [result |-> new_success, queried |-> TRUE,
          fw_consts_valid_ |-> TRUE, fw_consts_ |-> map[r.response_]]

\* craft_and_set_payload: payload_max_len and set_payload: chunk_len
payload_max_len == 350
chunk_len == 50

\* align_up(x, align)
align_up(x, align) == x + (align - (x % align))

\* craft_and_set_payload: payload_prefix, as it lies in memory
payload_prefix(payload_addr) ==
    U32Bytes(AddU32(payload_addr, 24))
    \o U32Bytes(OrOne(AddU32(payload_addr, 28)))
    \o U32Bytes(U32(0, 15))
    \o Zeros(12)
    \o STR_A \o <<0>>
    \o Zeros(2)

\* craft_and_set_payload up to the call of set_payload
craft_payload(consts) ==
    LET prefix == payload_prefix(consts.ucmd_ua_buf_addr)
        payload_len == Len(prefix) + Len(consts.shellcode)
    IN  IF payload_len > payload_max_len
        THEN [ok |-> FALSE, payload |-> <<>>]
        ELSE [ok |-> TRUE,
              payload |-> prefix \o consts.shellcode
                          \o Zeros(align_up(payload_len, 50) - payload_len)]

\* overwrite_cmd_table_ptr: the special bytes and the printable range
IsSpecialChar_mut_nolf(b) == b \in {8, CR, 21}

IsSpecialChar(b) == b \in {8, CR, LF, 21}
IsAsciiChar(b) == b >= 32 /\ b < 128

\* overwrite_cmd_table_ptr with the printable bytes taken from the least
\* significant one upwards
overwrite_cmd_table_ptr_mut_lsbfirst(write_val) ==
    LET target == U32Bytes(write_val)
        ascii == SelectSeq(<<0, 1, 2, 3>>, LAMBDA p : IsAsciiChar(target[p + 1]))
        to_send(p) == [j \in 1..4 |-> IF j - 1 < p + 1 THEN 0 ELSE target[j]]
    IN  IF \E i \in 1..4 : IsSpecialChar(target[i])
        THEN [ok |-> FALSE, writes |-> <<>>]
        ELSE [ok |-> TRUE,
              writes |-> [k \in 1..Len(ascii) |-> to_send(ascii[k])] \o <<target>>]

\* overwrite_cmd_table_ptr: whether it goes on, and the values it hands to
\* write_oob, in order
overwrite_cmd_table_ptr(write_val) ==
    LET target == U32Bytes(write_val)
        ascii == SelectSeq(<<3, 2, 1, 0>>, LAMBDA p : IsAsciiChar(target[p + 1]))
        to_send(p) == [j \in 1..4 |-> IF j - 1 < p + 1 THEN 0 ELSE target[j]]
    IN  IF \E i \in 1..4 : IsSpecialChar(target[i])
        THEN [ok |-> FALSE, writes |-> <<>>]
        ELSE [ok |-> TRUE,
              writes |-> [k \in 1..Len(ascii) |-> to_send(ascii[k])] \o <<target>>]

\* write_oob(value): what goes to the UART and to the ring buffer
write_oob_ev ==
    <<<<"nak", "write_oob">>, <<"filler", "write_oob">>,
      <<"overwrite", "write_oob">>, <<"clear", "write_oob">>>>

write_oob_out(value, chip) ==
    [filler_len |-> 160 * chip.filler_multiplier,
     output2 |-> <<12>> \o value \o <<0, 21>>]

\* is_unlocked: nak() then getserialno()
is_unlocked_ev(caller) == <<<<"nak", caller>>, <<"getserialno", caller>>>>

\* autorun with uart_rx_.clear() ahead of the test of the reset line
autorun_guard_mut_clearfirst(is_reset) ==
    [go_on |-> ~is_reset, result |-> new_ng(kEmcInReset, <<>>),
     ev |-> <<<<"clear", "autorun">>>>]

\* autorun: `if (reset_.is_reset()) return new_ng(kEmcInReset)`, then
\* uart_rx_.clear()
autorun_guard(is_reset) ==
    IF is_reset
    THEN [go_on |-> FALSE, result |-> new_ng(kEmcInReset, <<>>), ev |-> <<>>]
    ELSE [go_on |-> TRUE, result |-> new_success,
          ev |-> <<<<"clear", "autorun">>>>]

\* autorun: `if (result.is_success()) return new_success()` negated
already_unlocked_mut_inverted(result) == ~is_success(result)

\* autorun: `if (result.is_success()) return new_success()` after is_unlocked
already_unlocked(result) == is_success(result)

\* exploit_trigger: what it returns on the version reply r without sending hax
exploit_trigger_version(r) ==
    IF ~is_ng_status(r, kUcmdUnknownCmd)
    THEN [go_on |-> FALSE, result |-> new_ng(kExploitVersionUnexpected, format(r))]
    ELSE [go_on |-> TRUE, result |-> r]

\* autorun after exploit_trigger returned result
autorun_finish(result) ==
    IF is_success(result)
    THEN [reset |-> FALSE, ret |-> new_success]
    ELSE [reset |-> TRUE, ret |-> new_ng(kExploitFailedEmcReset, <<>>)]

\* What cmd_send_recv can return: Timeout, or the first Ok/Ng line
EmcResults ==
    {new_timeout}
    \cup {from_str(s) : s \in {STR_ok, STR_ok_v1, STR_ok_vx, STR_ng, STR_ng_einval}}

\* The picofwconst commands the host sends
\* "picofwconst E1E.0009 0017DE9C 00BF...00BF": a shellcode of 322 bytes, which
\* with the prefix makes a payload of payload_max_len bytes
STR_fwconst_322 ==
    SubSeq(STR_fwconst_22, 1, 30)
      \o [i \in 1..(4 * 161) |-> IF i % 4 = 3 THEN 66 ELSE IF i % 4 = 0 THEN 70 ELSE 48]

\* "picofwconst E1E.0009 0017DE9G 00BD": no hex address
STR_fwconst_badaddr ==
    (SubSeq(STR_fwconst_plain, 1, 28) \o <<71>>) \o SubSeq(STR_fwconst_plain, 30, 34)

\* "picofwconst E1E.0009 0017DE9C 00B": an odd number of shellcode digits
STR_fwconst_odd ==
    SubSeq(STR_fwconst_plain, 1, 33)

\* "picofwconst E1E.0009 0017DE9C 00BD 00": five parts
STR_fwconst_5parts ==
    STR_fwconst_plain \o <<SPACE, 48, 48>>

FwConstCmds ==
    {STR_fwconst_plain, STR_fwconst_lf, STR_fwconst_short, STR_fwconst_22,
     STR_fwconst_322, STR_fwconst_badaddr, STR_fwconst_odd, STR_fwconst_5parts}

(***************************************************************************)
(* process_cmd: the host lines and their classification                    *)
(***************************************************************************)
\* "picoreset"
STR_picoreset ==
    <<112, 105, 99, 111, 114, 101, 115, 101, 116>>
\* "picoemcreset"
STR_picoemcreset ==
    <<112, 105, 99, 111, 101, 109, 99, 114, 101, 115, 101, 116>>
\* "picoemcrom"
STR_picoemcrom ==
    <<112, 105, 99, 111, 101, 109, 99, 114, 111, 109>>
\* "picofwconst"
STR_picofwconst ==
    <<112, 105, 99, 111, 102, 119, 99, 111, 110, 115, 116>>
\* "picochipconst"
STR_picochipconst ==
    <<112, 105, 99, 111, 99, 104, 105, 112, 99, 111, 110, 115, 116>>
\* "enter"
STR_enter ==
    <<101, 110, 116, 101, 114>>
\* "exit"
STR_exit ==
    <<101, 120, 105, 116>>
\* "salina"
STR_salina ==
    <<115, 97, 108, 105, 110, 97>>
\* "salina2"
STR_salina2 ==
    <<115, 97, 108, 105, 110, 97, 50>>
\* "picoemcrom enter"
STR_emcrom_enter ==
    <<112, 105, 99, 111, 101, 109, 99, 114, 111, 109, 32, 101, 110, 116, 101, 114>>
\* "picoemcrom exit"
STR_emcrom_exit ==
    <<112, 105, 99, 111, 101, 109, 99, 114, 111, 109, 32, 101, 120, 105, 116>>
\* "picoemcrom on"
STR_emcrom_bad ==
    <<112, 105, 99, 111, 101, 109, 99, 114, 111, 109, 32, 111, 110>>
\* "picoemcrom"
STR_emcrom_none ==
    <<112, 105, 99, 111, 101, 109, 99, 114, 111, 109>>
\* "picochipconst salina2"
STR_chip_salina2 ==
    <<112, 105, 99, 111, 99, 104, 105, 112, 99, 111, 110, 115, 116, 32, 115, 97,
      108, 105, 110, 97, 50>>
\* "picochipconst 01 0001 0002"
STR_chip_custom ==
    <<112, 105, 99, 111, 99, 104, 105, 112, 99, 111, 110, 115, 116, 32, 48, 49, 32,
      48, 48, 48, 49, 32, 48, 48, 48, 50>>
\* "picochipconst zz"
STR_chip_bad ==
    <<112, 105, 99, 111, 99, 104, 105, 112, 99, 111, 110, 115, 116, 32, 122, 122>>
\* "4142"
STR_hexline ==
    <<52, 49, 52, 50>>
\* "go"
STR_textline ==
    <<103, 111>>

\* enum CommandType
kUnlock == 0
kPicoReset == 1
kEmcReset == 2
kEmcRom == 3
kSetFwConsts == 4
kSetChipConsts == 5
kPassthroughUcmd == 6
kPassthroughRom == 7

\* parse_command_type with the mode flag tested before the keywords
parse_command_type_mut_romfirst(cmd, in_rom) ==
    IF in_rom THEN kPassthroughRom
    ELSE IF starts_with(cmd, STR_unlock) THEN kUnlock
    ELSE IF starts_with(cmd, STR_picoreset) THEN kPicoReset
    ELSE IF starts_with(cmd, STR_picoemcreset) THEN kEmcReset
    ELSE IF starts_with(cmd, STR_picoemcrom) THEN kEmcRom
    ELSE IF starts_with(cmd, STR_picofwconst) THEN kSetFwConsts
    ELSE IF starts_with(cmd, STR_picochipconst) THEN kSetChipConsts
    ELSE kPassthroughUcmd

\* parse_command_type(cmd), in_rom_ made a parameter
parse_command_type(cmd, in_rom) ==
    IF starts_with(cmd, STR_unlock) THEN kUnlock
    ELSE IF starts_with(cmd, STR_picoreset) THEN kPicoReset
    ELSE IF starts_with(cmd, STR_picoemcreset) THEN kEmcReset
    ELSE IF starts_with(cmd, STR_picoemcrom) THEN kEmcRom
    ELSE IF starts_with(cmd, STR_picofwconst) THEN kSetFwConsts
    ELSE IF starts_with(cmd, STR_picochipconst) THEN kSetChipConsts
    ELSE IF in_rom THEN kPassthroughRom
    ELSE kPassthroughUcmd

\* int_from_hex<T>(str) for a T of `digits` hex digits
int_from_hex_n(str, digits) ==
    IF Len(str) >= digits /\ \A i \in 1..digits : IsHexDigit(str[i])
    THEN [has_value |-> TRUE, value |-> HexToNat(SubSeq(str, 1, digits))]
    ELSE [has_value |-> FALSE, value |-> 0]

salina2_consts_ ==
    [filler_multiplier |-> 6, post_process_ms |-> 800, pwn_delay_us |-> 900]

\* set_chip_consts(cmd): the Result and chip_consts_ as it leaves it
set_chip_consts(cmd, chip) ==
    LET ng == [result |-> new_ng(kChipConstsInvalid, <<>>), chip_consts_ |-> chip]
        parts == split_string(cmd, SPACE)
        num_parts == Len(parts)
    IN  IF num_parts = 2
        THEN IF parts[2] = STR_salina
             THEN [result |-> new_success, chip_consts_ |-> salina_consts_]
             ELSE IF parts[2] = STR_salina2
             THEN [result |-> new_success, chip_consts_ |-> salina2_consts_]
             ELSE ng
        ELSE IF num_parts = 4
        THEN LET filler_multiplier == int_from_hex_n(parts[2], 2)
                 post_process_ms == int_from_hex_n(parts[3], 4)
                 pwn_delay_us == int_from_hex_n(parts[4], 4)
             IN  IF \/ ~filler_multiplier.has_value
                    \/ ~post_process_ms.has_value
                    \/ ~pwn_delay_us.has_value
                 THEN ng
                 ELSE [result |-> new_success,
                       chip_consts_ |->
                         [filler_multiplier |-> filler_multiplier.value,
                          post_process_ms |-> post_process_ms.value,
                          pwn_delay_us |-> pwn_delay_us.value]]
        ELSE ng

\* rom_enter_exit(cmd): the Result, the members as it leaves them, what it
\* does to the pins and the UART, and whether it clears uart_rx_
rom_enter_exit(cmd, in_rom, baud, rom_low) ==
    LET ng == [result |-> new_ng(kUcmdUnknownCmd, <<>>), in_rom_ |-> in_rom,
               baudrate |-> baud, rom_gpio_low |-> rom_low, cleared |-> FALSE,
               ev |-> <<>>]
        parts == split_string(cmd, SPACE)
    IN  IF Len(parts) # 2 THEN ng
        ELSE IF parts[2] = STR_enter
        THEN [result |-> new_success, in_rom_ |-> TRUE, baudrate |-> 460800,
              rom_gpio_low |-> TRUE, cleared |-> TRUE,
              ev |-> <<<<"reset_low", "rom_enter_exit">>,
                       <<"rom_low", "rom_enter_exit">>,
                       <<"set_baudrate", "rom_enter_exit">>,
                       <<"clear", "rom_enter_exit">>,
                       <<"reset_release", "rom_enter_exit">>>>]
        ELSE IF parts[2] = STR_exit
        THEN [result |-> new_success, in_rom_ |-> FALSE, baudrate |-> 115200,
              rom_gpio_low |-> FALSE, cleared |-> TRUE,
              ev |-> <<<<"reset_low", "rom_enter_exit">>,
                       <<"rom_release", "rom_enter_exit">>,
                       <<"set_baudrate", "rom_enter_exit">>,
                       <<"clear", "rom_enter_exit">>,
                       <<"reset_release", "rom_enter_exit">>>>]
        ELSE ng

\* process_cmd: the wait_echo argument of its cmd_send, wrongly true
passthrough_wait_echo_mut_true == TRUE

\* process_cmd: `cmd_send(cmd, false)`
passthrough_wait_echo == FALSE

\* cmd_send(cmdline, wait_echo): the write, and the echo wait if it is made
cmd_send_ev(we) ==
    <<<<"write", "cmd_send">>>>
    \o (IF we THEN <<<<"echo_wait", "cmd_send">>>> ELSE <<>>)

\* The host lines explored besides unlock and picofwconst
HostLines ==
    {STR_picoreset, STR_picoemcreset, STR_emcrom_enter, STR_emcrom_exit,
     STR_emcrom_bad, STR_emcrom_none, STR_chip_salina2, STR_chip_custom,
     STR_chip_bad, STR_hexline, STR_textline}

UlInit ==
    /\ u_pc = "idle"
    /\ fw_constants_map = fw_constants_map_init
    /\ fw_consts_valid_ = FALSE
    /\ fw_consts_ = FwConstantsEmpty
    /\ chip_consts_ = salina_consts_
    /\ u_result = new_success
    /\ host_out = <<>>
    /\ payload = <<>>
    /\ pos = 0
    /\ idx = 0
    /\ oob_queue = <<>>
    /\ ev = <<>>
    /\ p2Log = <<>>
    /\ ackLog = <<>>
    /\ oobLog = <<>>
    /\ probe1 = new_timeout
    /\ failedStage = "none"
    /\ valid0 = FALSE
    /\ reset0 = FALSE
    /\ consts0 = FwConstantsEmpty
    /\ setupDone = FALSE
    /\ setupDone0 = FALSE
    /\ in_rom_ = FALSE
    /\ baudrate = 115200
    /\ rom_gpio_low = FALSE
    /\ lastRom = <<>>
    /\ host_cmd = <<>>
    /\ host_type = kPassthroughUcmd
    /\ host_rom0 = FALSE
    /\ pt_out = <<>>

\* autorun returns ret: process_cmd is left with its cdc_write
Return(ret, stage) ==
    /\ u_pc' = "done"
    /\ u_result' = ret
    /\ failedStage' = stage

\* process_cmd("unlock"): the echo frame, then autorun up to is_unlocked
HostUnlock(in_reset) ==
    /\ u_pc = "idle"
    /\ parse_command_type(STR_unlock, in_rom_) = kUnlock
    /\ host_cmd' = STR_unlock
    /\ host_type' = parse_command_type(STR_unlock, in_rom_)
    /\ host_rom0' = in_rom_
    /\ pt_out' = <<>>
    /\ host_out' = <<new_unknown(STR_unlock)>>
    /\ p2Log' = <<>>
    /\ ackLog' = <<>>
    /\ oobLog' = <<>>
    /\ probe1' = new_timeout
    /\ valid0' = fw_consts_valid_
    /\ reset0' = in_reset
    /\ consts0' = fw_consts_
    /\ setupDone0' = setupDone
    /\ LET g == autorun_guard(in_reset)
       IN  /\ ev' = g.ev
           /\ IF ~g.go_on
              THEN Return(g.result, "guard")
              ELSE /\ u_pc' = "is_unlocked"
                   /\ u_result' = new_success
                   /\ failedStage' = "none"
    /\ UNCHANGED <<fw_constants_map, fw_consts_valid_, fw_consts_, chip_consts_,
                   payload, pos, idx, oob_queue, setupDone>>
    /\ UNCHANGED <<in_rom_, baudrate, rom_gpio_low, lastRom>>
    /\ UNCHANGED <<relayVars, pfVars, cdcVars, bufVars, cmdVars>>

\* autorun: is_unlocked() and the already-done test
IsUnlocked(r) ==
    /\ u_pc = "is_unlocked"
    /\ ev' = ev \o is_unlocked_ev("autorun")
    /\ probe1' = r
    /\ IF already_unlocked(r)
       THEN Return(new_success, "none")
       ELSE /\ u_pc' = "resolve"
            /\ UNCHANGED <<u_result, failedStage>>
    /\ UNCHANGED <<fw_constants_map, fw_consts_valid_, fw_consts_, chip_consts_,
                   host_out, payload, pos, idx, oob_queue, p2Log, ackLog, oobLog,
                   valid0, reset0, consts0, setupDone, setupDone0>>
    /\ UNCHANGED <<relayVars, pfVars, cdcVars, bufVars, cmdVars, hostVars>>

\* exploit_setup: resolve_constants()
ResolveConstants(r) ==
    /\ u_pc = "resolve"
    /\ LET rc == resolve_constants(fw_consts_valid_, fw_consts_, fw_constants_map, r)
       IN  /\ fw_consts_valid_' = rc.fw_consts_valid_
           /\ fw_consts_' = rc.fw_consts_
           /\ ev' = IF rc.queried
                    THEN Append(ev, <<"version", "resolve_constants">>) ELSE ev
           /\ IF ~is_success(rc.result)
              THEN \* exploit_setup returns result; autorun: result.is_ng()
                   IF is_ng(rc.result)
                   THEN Return(rc.result, "resolve")
                   ELSE /\ u_pc' = "trigger"
                        /\ UNCHANGED <<u_result, failedStage>>
              ELSE /\ u_pc' = "craft"
                   /\ UNCHANGED <<u_result, failedStage>>
    /\ UNCHANGED <<fw_constants_map, chip_consts_, host_out, payload, pos, idx,
                   oob_queue, p2Log, ackLog, oobLog, probe1, valid0, reset0, consts0, setupDone,
                   setupDone0>>
    /\ UNCHANGED <<relayVars, pfVars, cdcVars, bufVars, cmdVars, hostVars>>

\* craft_and_set_payload up to set_payload's nak()
CraftPayload ==
    /\ u_pc = "craft"
    /\ LET cp == craft_payload(fw_consts_)
       IN  IF ~cp.ok
           THEN /\ Return(new_ng(kSetPayloadTooLarge, <<>>), "craft")
                /\ UNCHANGED <<payload, pos, idx, ev>>
           ELSE /\ payload' = cp.payload
                /\ pos' = 0
                /\ idx' = 0
                /\ ev' = Append(ev, <<"nak", "set_payload">>)
                /\ u_pc' = "puareq1"
                /\ UNCHANGED <<u_result, failedStage>>
    /\ UNCHANGED <<fw_constants_map, fw_consts_valid_, fw_consts_, chip_consts_,
                   host_out, oob_queue, p2Log, ackLog, oobLog, probe1, valid0, reset0, consts0,
                   setupDone, setupDone0>>
    /\ UNCHANGED <<relayVars, pfVars, cdcVars, bufVars, cmdVars, hostVars>>

\* puareq1, puareq2: cmd_send_recv(...).is_success() (mutant: any reply
\* from the EMC counts as an acknowledgement)
puareq_acked_mut_anyreply(r) ==
    is_ok_or_ng(r)

\* puareq1, puareq2: cmd_send_recv(...).is_success()
puareq_acked(r) ==
    is_success(r)

\* set_payload: puareq1(0)
Puareq1(r) ==
    /\ u_pc = "puareq1"
    /\ ev' = Append(ev, <<"puareq1", "set_payload">>)
    /\ ackLog' = Append(ackLog, [type_ |-> r.type_, status_ |-> r.status_])
    /\ IF ~puareq_acked(r)
       THEN Return(new_ng(kSetPayloadPuareq1Failed, <<>>), "puareq1")
       ELSE /\ u_pc' = "puareq2"
            /\ UNCHANGED <<u_result, failedStage>>
    /\ UNCHANGED <<fw_constants_map, fw_consts_valid_, fw_consts_, chip_consts_,
                   host_out, payload, pos, idx, oob_queue, p2Log, oobLog, probe1,
                   valid0, reset0, consts0, setupDone, setupDone0>>
    /\ UNCHANGED <<relayVars, pfVars, cdcVars, bufVars, cmdVars, hostVars>>

\* set_payload: one pass of the chunk loop; after the last chunk
\* craft_and_set_payload returns success and exploit_setup goes on
Puareq2(r) ==
    /\ u_pc = "puareq2"
    /\ pos < Len(payload)
    /\ LET chunk == SubSeq(payload, pos + 1, Min(pos + chunk_len, Len(payload)))
       IN  /\ ev' = Append(ev, <<"puareq2", "set_payload">>)
           /\ p2Log' = Append(p2Log, [index |-> idx, chunk |-> chunk])
    /\ ackLog' = Append(ackLog, [type_ |-> r.type_, status_ |-> r.status_])
    /\ IF ~puareq_acked(r)
       THEN /\ Return(new_ng(kSetPayloadPuareq2Failed, <<>>), "puareq2")
            /\ UNCHANGED <<pos, idx, setupDone>>
       ELSE /\ pos' = pos + chunk_len
            /\ idx' = idx + 1
            /\ IF pos + chunk_len < Len(payload)
               THEN /\ u_pc' = "puareq2"
                    /\ UNCHANGED setupDone
               ELSE /\ u_pc' = "overwrite"
                    /\ setupDone' = TRUE
            /\ UNCHANGED <<u_result, failedStage>>
    /\ UNCHANGED <<fw_constants_map, fw_consts_valid_, fw_consts_, chip_consts_,
                   host_out, payload, oob_queue, oobLog, probe1, valid0, reset0, consts0,
                   setupDone0>>
    /\ UNCHANGED <<relayVars, pfVars, cdcVars, bufVars, cmdVars, hostVars>>

\* exploit_setup: overwrite_cmd_table_ptr() up to its first write_oob
OverwriteCmdTablePtr ==
    /\ u_pc = "overwrite"
    /\ LET ow == overwrite_cmd_table_ptr(fw_consts_.ucmd_ua_buf_addr)
       IN  IF ~ow.ok
           THEN /\ Return(new_ng(kFwConstsInvalid, <<>>), "overwrite")
                /\ UNCHANGED oob_queue
           ELSE /\ oob_queue' = ow.writes
                /\ u_pc' = "write_oob"
                /\ UNCHANGED <<u_result, failedStage>>
    /\ UNCHANGED <<fw_constants_map, fw_consts_valid_, fw_consts_, chip_consts_,
                   host_out, payload, pos, idx, ev, p2Log, ackLog, oobLog, probe1, valid0, reset0,
                   consts0, setupDone, setupDone0>>
    /\ UNCHANGED <<relayVars, pfVars, cdcVars, bufVars, cmdVars, hostVars>>

\* overwrite_cmd_table_ptr: one write_oob; after the last one exploit_setup
\* returns success and autorun goes on to exploit_trigger
WriteOob ==
    /\ u_pc = "write_oob"
    /\ oob_queue # <<>>
    /\ ev' = ev \o write_oob_ev
    /\ oobLog' = Append(oobLog, write_oob_out(Head(oob_queue), chip_consts_))
    /\ oob_queue' = Tail(oob_queue)
    /\ u_pc' = IF Tail(oob_queue) = <<>> THEN "trigger" ELSE "write_oob"
    /\ UNCHANGED <<fw_constants_map, fw_consts_valid_, fw_consts_, chip_consts_,
                   u_result, host_out, payload, pos, idx, p2Log, ackLog, probe1,
                   failedStage, valid0, reset0, consts0, setupDone, setupDone0>>
    /\ UNCHANGED <<relayVars, pfVars, cdcVars, bufVars, cmdVars, hostVars>>

\* exploit_trigger: nak(), version() and the test of its reply; autorun's
\* handling of what exploit_trigger returns early
TriggerVersion(r) ==
    /\ u_pc = "trigger"
    /\ ev' = (ev \o <<<<"nak", "exploit_trigger">>, <<"version", "exploit_trigger">>>>)
             \o (IF ~exploit_trigger_version(r).go_on
                    /\ autorun_finish(exploit_trigger_version(r).result).reset
                 THEN <<<<"reset", "autorun">>>> ELSE <<>>)
    /\ IF ~exploit_trigger_version(r).go_on
       THEN Return(autorun_finish(exploit_trigger_version(r).result).ret, "trigger")
       ELSE /\ u_pc' = "hax"
            /\ UNCHANGED <<u_result, failedStage>>
    /\ UNCHANGED <<fw_constants_map, fw_consts_valid_, fw_consts_, chip_consts_,
                   host_out, payload, pos, idx, oob_queue, p2Log, ackLog, oobLog, probe1,
                   valid0, reset0, consts0, setupDone, setupDone0>>
    /\ UNCHANGED <<relayVars, pfVars, cdcVars, bufVars, cmdVars, hostVars>>

\* exploit_trigger: cmd_send(hax_cmd_name_), its return value unused
Hax ==
    /\ u_pc = "hax"
    /\ ev' = Append(ev, <<"hax", "exploit_trigger">>)
    /\ u_pc' = "verify"
    /\ UNCHANGED <<fw_constants_map, fw_consts_valid_, fw_consts_, chip_consts_,
                   u_result, host_out, payload, pos, idx, oob_queue, p2Log, ackLog, oobLog,
                   probe1, failedStage, valid0, reset0, consts0, setupDone, setupDone0>>
    /\ UNCHANGED <<relayVars, pfVars, cdcVars, bufVars, cmdVars, hostVars>>

\* exploit_trigger: `return is_unlocked()`, and autorun to its end
Verify(r) ==
    /\ u_pc = "verify"
    /\ ev' = (ev \o is_unlocked_ev("exploit_trigger"))
             \o (IF autorun_finish(r).reset THEN <<<<"reset", "autorun">>>> ELSE <<>>)
    /\ Return(autorun_finish(r).ret,
              IF is_success(r) THEN "none" ELSE "verify")
    /\ UNCHANGED <<fw_constants_map, fw_consts_valid_, fw_consts_, chip_consts_,
                   host_out, payload, pos, idx, oob_queue, p2Log, ackLog, oobLog, probe1,
                   valid0, reset0, consts0, setupDone, setupDone0>>
    /\ UNCHANGED <<relayVars, pfVars, cdcVars, bufVars, cmdVars, hostVars>>

\* process_cmd: cdc_write(itf, result.to_usb_response()) after autorun
HostUnlockReply ==
    /\ u_pc = "done"
    /\ host_out' = Append(host_out, u_result)
    /\ u_pc' = "idle"
    \* autorun's locals are gone; the history of the invocation starts afresh
    /\ payload' = <<>>
    /\ pos' = 0
    /\ idx' = 0
    /\ oob_queue' = <<>>
    /\ ev' = <<>>
    /\ p2Log' = <<>>
    /\ ackLog' = <<>>
    /\ oobLog' = <<>>
    /\ probe1' = new_timeout
    /\ failedStage' = "none"
    /\ valid0' = FALSE
    /\ reset0' = FALSE
    /\ consts0' = FwConstantsEmpty
    /\ setupDone0' = FALSE
    /\ UNCHANGED <<fw_constants_map, fw_consts_valid_, fw_consts_, chip_consts_,
                   u_result, setupDone>>
    /\ UNCHANGED <<relayVars, pfVars, cdcVars, bufVars, cmdVars, hostVars>>

\* process_cmd: the result frame written ahead of the echo frame
control_frames_mut_swapped(cmd, result) == <<result, new_unknown(cmd)>>

\* process_cmd: cdc_write of the echo, then cdc_write of the result
control_frames(cmd, result) == <<new_unknown(cmd), result>>

\* process_cmd("picofwconst ..."): the echo frame, set_fw_consts, the result frame
HostSetFwConsts(cmd) ==
    /\ u_pc = "idle"
    /\ parse_command_type(cmd, in_rom_) = kSetFwConsts
    /\ host_cmd' = cmd
    /\ host_type' = parse_command_type(cmd, in_rom_)
    /\ host_rom0' = in_rom_
    /\ pt_out' = <<>>
    /\ ev' = <<>>
    /\ LET sf == set_fw_consts(cmd, fw_constants_map, fw_consts_valid_, fw_consts_)
       IN  /\ fw_constants_map' = sf.map
           /\ fw_consts_valid_' = sf.fw_consts_valid_
           /\ fw_consts_' = sf.fw_consts_
           /\ u_result' = sf.result
           /\ host_out' = control_frames(cmd, sf.result)
           /\ setupDone' = IF is_success(sf.result) THEN FALSE ELSE setupDone
    /\ UNCHANGED <<u_pc, chip_consts_, payload, pos, idx, oob_queue, p2Log, ackLog,
                   oobLog, probe1, failedStage, valid0, reset0, consts0, setupDone0>>
    /\ UNCHANGED <<in_rom_, baudrate, rom_gpio_low, lastRom>>
    /\ UNCHANGED <<relayVars, pfVars, cdcVars, bufVars, cmdVars>>

\* process_cmd: what every call does first
ProcessCmdEntry(cmd, type) ==
    /\ u_pc = "idle"
    /\ parse_command_type(cmd, in_rom_) = type
    /\ host_cmd' = cmd
    /\ host_type' = parse_command_type(cmd, in_rom_)
    /\ host_rom0' = in_rom_

\* process_cmd("picoreset"): the echo frame, then reset_usb_boot, which does
\* not return
HostPicoReset(cmd) ==
    /\ ProcessCmdEntry(cmd, kPicoReset)
    /\ pt_out' = <<>>
    /\ host_out' = <<new_unknown(cmd)>>
    /\ u_result' = new_success
    /\ ev' = <<<<"reset_usb_boot", "process_cmd">>>>
    /\ u_pc' = "usb_boot"
    /\ UNCHANGED <<fw_constants_map, fw_consts_valid_, fw_consts_, chip_consts_,
                   setupDone, sessionVars, in_rom_, baudrate, rom_gpio_low, lastRom>>
    /\ UNCHANGED <<relayVars, pfVars, cdcVars, bufVars, cmdVars>>

\* process_cmd("picoemcreset"): the echo frame, reset_.reset(), the result frame
HostEmcReset(cmd) ==
    /\ ProcessCmdEntry(cmd, kEmcReset)
    /\ pt_out' = <<>>
    /\ host_out' = control_frames(cmd, new_success)
    /\ u_result' = new_success
    /\ ev' = <<<<"reset", "process_cmd">>>>
    /\ UNCHANGED <<u_pc, fw_constants_map, fw_consts_valid_, fw_consts_, chip_consts_,
                   setupDone, sessionVars, in_rom_, baudrate, rom_gpio_low, lastRom>>
    /\ UNCHANGED <<relayVars, pfVars, cdcVars, bufVars, cmdVars>>

\* process_cmd("picoemcrom ..."): the echo frame, rom_enter_exit, the result frame
HostEmcRom(cmd) ==
    /\ ProcessCmdEntry(cmd, kEmcRom)
    /\ pt_out' = <<>>
    /\ LET re == rom_enter_exit(cmd, in_rom_, baudrate, rom_gpio_low)
       IN  /\ in_rom_' = re.in_rom_
           /\ baudrate' = re.baudrate
           /\ rom_gpio_low' = re.rom_gpio_low
           /\ uart_rx_' = IF re.cleared THEN clear(uart_rx_) ELSE uart_rx_
           /\ ev' = re.ev
           /\ u_result' = re.result
           /\ host_out' = control_frames(cmd, re.result)
           /\ lastRom' = IF is_success(re.result) THEN cmd ELSE lastRom
    /\ UNCHANGED <<u_pc, fw_constants_map, fw_consts_valid_, fw_consts_, chip_consts_,
                   setupDone, sessionVars>>
    /\ UNCHANGED <<uart_tx, now, c_pc, c_kind, wait_echo, cmdline, readback, line,
                   rlt_start, rlt_timeout, c_sent, c_result, emcSent, echoSeen,
                   okngFirst, nOther, waitElapsed>>
    /\ UNCHANGED <<relayVars, pfVars, cdcVars, bufVars>>

\* process_cmd("picochipconst ..."): the echo frame, set_chip_consts, the result frame
HostSetChipConsts(cmd) ==
    /\ ProcessCmdEntry(cmd, kSetChipConsts)
    /\ pt_out' = <<>>
    /\ LET sc == set_chip_consts(cmd, chip_consts_)
       IN  /\ chip_consts_' = sc.chip_consts_
           /\ u_result' = sc.result
           /\ host_out' = control_frames(cmd, sc.result)
    /\ ev' = <<>>
    /\ UNCHANGED <<u_pc, fw_constants_map, fw_consts_valid_, fw_consts_, setupDone,
                   sessionVars, in_rom_, baudrate, rom_gpio_low, lastRom>>
    /\ UNCHANGED <<relayVars, pfVars, cdcVars, bufVars, cmdVars>>

\* process_cmd of a line without keyword outside ROM mode: cmd_send(cmd, false)
HostPassthroughUcmd(cmd) ==
    /\ ProcessCmdEntry(cmd, kPassthroughUcmd)
    /\ pt_out' = Frame(cmd)
    /\ ev' = cmd_send_ev(passthrough_wait_echo)
    /\ host_out' = <<>>
    /\ UNCHANGED <<u_pc, u_result, fw_constants_map, fw_consts_valid_, fw_consts_,
                   chip_consts_, setupDone, sessionVars, in_rom_, baudrate,
                   rom_gpio_low, lastRom>>
    /\ UNCHANGED <<relayVars, pfVars, cdcVars, bufVars, cmdVars>>

\* process_cmd of a line without keyword in ROM mode: the hex-decoded bytes
\* are written, if the line decodes
HostPassthroughRom(cmd) ==
    /\ ProcessCmdEntry(cmd, kPassthroughRom)
    /\ IF hex2buf(cmd).ok
       THEN /\ pt_out' = hex2buf(cmd).buf
            /\ ev' = <<<<"write", "process_cmd">>>>
       ELSE /\ pt_out' = <<>>
            /\ ev' = <<>>
    /\ host_out' = <<>>
    /\ UNCHANGED <<u_pc, u_result, fw_constants_map, fw_consts_valid_, fw_consts_,
                   chip_consts_, setupDone, sessionVars, in_rom_, baudrate,
                   rom_gpio_low, lastRom>>
    /\ UNCHANGED <<relayVars, pfVars, cdcVars, bufVars, cmdVars>>

(***************************************************************************)
(* SpecCdc: cdc_process, the relay of what the EMC sends to the host,      *)
(* between two calls of process_cmd.  One step is one pass of its loop.    *)
(***************************************************************************)
\* buf2hex (string_utils.h): two hex digits per byte
RECURSIVE buf2hex(_)
buf2hex(buf) ==
    IF buf = <<>> THEN <<>> ELSE Hex02(Head(buf)) \o buf2hex(Tail(buf))

\* a size_t in memory: 32 bits, little endian
SizeBytes(n) ==
    <<n % 256, (n \div 256) % 256, (n \div 65536) % 256, n \div 16777216>>

\* Result::to_usb_response with the status left out of response_len
to_usb_response_mut_len(r) ==
    LET okng == r.type_ \in {kOk, kNg}
        response_len == Len(r.response_)
    IN  <<r.type_>> \o SizeBytes(response_len)
          \o (IF okng THEN U32Bytes(r.status_) ELSE <<>>)
          \o r.response_

\* Result::to_usb_response
to_usb_response(r) ==
    LET okng == r.type_ \in {kOk, kNg}
        response_len == Len(r.response_) + (IF okng THEN 4 ELSE 0)
    IN  <<r.type_>> \o SizeBytes(response_len)
          \o (IF okng THEN U32Bytes(r.status_) ELSE <<>>)
          \o r.response_

\* the Result cdc_process builds for the bytes it drained in ROM mode
rom_frame_mut_success(buf) == new_ok(kSuccess, buf2hex(buf))

rom_frame(buf) == new_ok(kRomFrame, buf2hex(buf))

rom_buf_size == 256

STR_ok_romframe == <<79, 75, 32, 68, 69, 65, 68, 48, 48, 48, 65>>   \* "OK DEAD000A"

\* What the EMC may put on the wire: framed lines (one of them a status line
\* with the code DEAD000A, one with a bad checksum) and a raw run of bytes as
\* the boot ROM sends them.
CdcChunks ==
    {Frame(STR_ok), Frame(STR_ok_romframe), BadFrame(STR_ok), <<255, LF, 0>>}

CdcInit ==
    /\ cdc_frame = <<>>
    /\ cdc_drained = <<>>
    /\ cdc_rom = FALSE

\* one pass of the loop of cdc_process
CdcProcess ==
    /\ u_pc = "idle"
    /\ c_pc = "idle"
    /\ cdc_rom' = in_rom_
    /\ IF ~in_rom_
       THEN LET r == read_line(uart_rx_, <<>>)
            IN  /\ uart_rx_' = r.b
                /\ cdc_drained' = r.scanned
                /\ cdc_frame' = IF r.ret THEN to_usb_response(from_str(r.line))
                                ELSE <<>>
                /\ relayed' = IF r.ret
                              THEN Append(relayed, to_usb_response(from_str(r.line)))
                              ELSE relayed
       ELSE LET r == read_buf(uart_rx_, rom_buf_size)
            IN  /\ uart_rx_' = r.b
                /\ cdc_drained' = r.out
                /\ cdc_frame' = IF r.out # <<>> THEN to_usb_response(rom_frame(r.out))
                                ELSE <<>>
                /\ relayed' = IF r.out # <<>>
                              THEN Append(relayed, to_usb_response(rom_frame(r.out)))
                              ELSE relayed
    /\ UNCHANGED <<uart_tx, now, c_pc, c_kind, wait_echo, cmdline, readback, line,
                   rlt_start, rlt_timeout, c_sent, c_result, emcSent, echoSeen,
                   okngFirst, nOther, waitElapsed>>
    /\ UNCHANGED <<rxVars, pfVars, bufVars, ulVars>>

CdcNext ==
    \/ \E l \in CdcChunks : EmcSendLine(l)
    \/ \E cmd \in {STR_emcrom_enter, STR_emcrom_exit} : HostEmcRom(cmd)
    \/ CdcProcess

(***************************************************************************)
(* SpecRelay: outside ROM mode and with no host command in progress, the   *)
(* EMC's bytes arrive in pieces of a line, each piece pushed by one run of *)
(* the interrupt handler, between the passes of cdc_process.               *)
(***************************************************************************)
\* The two halves of the framed line "OK 00000000": a line arrives whole
\* (first half, second half), or as a second half alone, or with a first
\* half repeated, which fail validation.
RelayPieces ==
    {SubSeq(Frame(STR_ok), 1, 8), SubSeq(Frame(STR_ok), 9, Len(Frame(STR_ok)))}

RelayInit ==
    /\ rx_n = 0
    /\ rx_cur = [pushed |-> <<>>, whole |-> TRUE, stored |-> <<>>]
    /\ rx_log = <<>>
    /\ relayed = <<>>

\* The bookkeeping of the received lines, byte by byte along uart_rx_handler:
\* a byte is stored when the push made one more byte available.
RECURSIVE rx_track(_, _, _, _)
rx_track(b, cur, log, bytes) ==
    IF bytes = <<>> THEN [cur |-> cur, log |-> log]
    ELSE
      LET c == Head(bytes)
          b1 == push(b, c)
          stored == read_available(b1) = read_available(b) + 1
      IN  IF c = LF
          THEN rx_track(b1,
                        [pushed |-> <<>>, whole |-> TRUE,
                         stored |-> IF stored THEN <<>> ELSE cur.stored],
                        Append(log, [pushed |-> cur.pushed,
                                     whole |-> cur.whole /\ stored,
                                     lf_stored |-> stored,
                                     stored |-> IF stored THEN cur.stored ELSE <<>>]),
                        Tail(bytes))
          ELSE rx_track(b1,
                        [pushed |-> Append(cur.pushed, c),
                         whole |-> cur.whole /\ stored,
                         stored |-> IF stored THEN Append(cur.stored, c)
                                    ELSE cur.stored],
                        log, Tail(bytes))

\* uart_rx_handler: one run of the interrupt handler pushes a piece
RelayPush(piece) ==
    /\ rx_n < MaxPieces
    /\ rx_n' = rx_n + 1
    /\ uart_rx_' = uart_rx_handler(uart_rx_, piece)
    /\ rx_cur' = rx_track(uart_rx_, rx_cur, rx_log, piece).cur
    /\ rx_log' = rx_track(uart_rx_, rx_cur, rx_log, piece).log
    /\ UNCHANGED <<uart_tx, now, c_pc, c_kind, wait_echo, cmdline, readback, line,
                   rlt_start, rlt_timeout, c_sent, c_result, emcSent, echoSeen,
                   okngFirst, nOther, waitElapsed>>
    /\ UNCHANGED <<relayed, pfVars, cdcVars, bufVars, ulVars>>

\* What a pass of cdc_process outside ROM mode does to uart_rx_: read_line's
\* fast reject and its critical section
CdcTakeLine ==
    /\ u_pc = "idle"
    /\ c_pc = "idle"
    /\ ~in_rom_
    /\ uart_rx_.num_newlines # 0
    /\ ~empty(uart_rx_)
    /\ uart_rx_' = read_line_scan(uart_rx_, 0, read_available(uart_rx_), <<>>).b

RelayNext ==
    \/ \E piece \in RelayPieces : RelayPush(piece)
    \/ CdcProcess

(***************************************************************************)
(* SpecValidate, SpecFromStr: a line arrives piece by piece and             *)
(* validate_line, or Result::from_str, is applied to it.                    *)
(***************************************************************************)
\* The bytes a raw line is made of: a text character, the colon, the two
\* digits of the text character's checksum (0x4A), LF and CR.
ValidateChars == {<<74>>, <<COLON>>, <<52>>, <<65>>, <<LF>>, <<CR>>}

STR_status_ng == <<70, 48, 48, 48, 48, 48, 48, 54>>   \* "F0000006"
STR_0000 == <<48, 48, 48, 48>>   \* "0000"

\* The pieces a validated line is made of: the four prefixes, a status of
\* eight digits, four digits, a character that is no hex digit, a space.
FromStrWords ==
    {STR_hash_, STR_info_, STR_OK_, STR_NG_, STR_status_ng, STR_0000, <<71>>,
     <<SPACE>>}

PfInit ==
    /\ pf_line = <<>>
    /\ pf_n = 0
    /\ pf_op = "none"
    /\ pf_ret = [ok |-> FALSE, line |-> <<>>]

\* one more piece of the line
LineAppend(piece, max) ==
    /\ pf_op = "none"
    /\ pf_n < max
    /\ pf_line' = pf_line \o piece
    /\ pf_n' = pf_n + 1
    /\ UNCHANGED <<pf_op, pf_ret>>
    /\ UNCHANGED <<bufVars, cmdVars, ulVars, cdcVars, relayVars>>

\* validate_line(&line)
ValidateLine ==
    /\ pf_op = "none"
    /\ pf_op' = "validate_line"
    /\ pf_ret' = validate_line(pf_line)
    /\ UNCHANGED <<pf_line, pf_n>>
    /\ UNCHANGED <<bufVars, cmdVars, ulVars, cdcVars, relayVars>>

\* Result::from_str(line)
FromStr ==
    /\ pf_op = "none"
    /\ pf_op' = "from_str"
    /\ pf_ret' = from_str(pf_line)
    /\ UNCHANGED <<pf_line, pf_n>>
    /\ UNCHANGED <<bufVars, cmdVars, ulVars, cdcVars, relayVars>>

\* The pieces a response is made of, and the Results built around it: Ok
\* and Ng with statuses that have leading zeros, letter digits and all bits
\* set, and the four other types.
RespPieces == {<<71>>, <<SPACE>>, <<48>>, STR_OK_, STR_hash_}

FormatStatuses == {kSuccess, kUcmdUnknownCmd, U32(2748, 4660), U32(65535, 65535)}

FormatResults(resp) ==
    {MkResult(t, st, resp) : t \in {kOk, kNg}, st \in FormatStatuses}
    \cup {MkResult(t, kInvalidStatus, resp) :
            t \in {kTimeout, kUnknown, kComment, kInfo}}

\* r.format(), and Result::from_str on the text
FormatFromStr(r) ==
    /\ pf_op = "none"
    /\ pf_op' = "format"
    /\ pf_ret' = [r |-> r, text |-> format(r), back |-> from_str(format(r))]
    /\ UNCHANGED <<pf_line, pf_n>>
    /\ UNCHANGED <<bufVars, cmdVars, ulVars, cdcVars, relayVars>>

\* r.to_usb_response()
ToUsbResponse(r) ==
    /\ pf_op = "none"
    /\ pf_op' = "to_usb_response"
    /\ pf_ret' = [r |-> r, frame |-> to_usb_response(r)]
    /\ UNCHANGED <<pf_line, pf_n>>
    /\ UNCHANGED <<bufVars, cmdVars, ulVars, cdcVars, relayVars>>

FormatNext ==
    \/ \E w \in RespPieces : LineAppend(w, MaxResp)
    \/ \E r \in FormatResults(pf_line) : FormatFromStr(r)
    \/ \E r \in FormatResults(pf_line) : ToUsbResponse(r)

ValidateNext ==
    \/ \E c \in ValidateChars : LineAppend(c, MaxChars)
    \/ ValidateLine

FromStrNext ==
    \/ \E w \in FromStrWords : LineAppend(w, MaxWords)
    \/ FromStr

Next ==
    \/ \E in_reset \in BOOLEAN : HostUnlock(in_reset)
    \/ \E r \in EmcResults : IsUnlocked(r)
    \/ \E r \in EmcResults : ResolveConstants(r)
    \/ CraftPayload
    \/ \E r \in EmcResults : Puareq1(r)
    \/ \E r \in EmcResults : Puareq2(r)
    \/ OverwriteCmdTablePtr
    \/ WriteOob
    \/ \E r \in EmcResults : TriggerVersion(r)
    \/ Hax
    \/ \E r \in EmcResults : Verify(r)
    \/ HostUnlockReply
    \/ \E cmd \in FwConstCmds : HostSetFwConsts(cmd)
    \/ \E cmd \in HostLines : HostPicoReset(cmd)
    \/ \E cmd \in HostLines : HostEmcReset(cmd)
    \/ \E cmd \in HostLines : HostEmcRom(cmd)
    \/ \E cmd \in HostLines : HostSetChipConsts(cmd)
    \/ \E cmd \in HostLines : HostPassthroughUcmd(cmd)
    \/ \E cmd \in HostLines : HostPassthroughRom(cmd)

Init == BufInit /\ CmdInit /\ UlInit /\ CdcInit /\ PfInit /\ RelayInit

Spec == Init /\ [][Next]_vars

SpecBuf == Init /\ [][BufNext]_vars

\* The consumer keeps calling read_line and the producer keeps pushing.
SpecBufLine ==
    /\ Init
    /\ [][BufLineNext]_vars
    /\ WF_rl_pc(SBReadLine)
    /\ WF_<<accepted, dropped>>(\E c \in BufBytes : SBPush(c))

SpecCmd == Init /\ [][CmdNext]_vars

SpecCdc == Init /\ [][CdcNext]_vars

SpecValidate == Init /\ [][ValidateNext]_vars

SpecFromStr == Init /\ [][FromStrNext]_vars

SpecFormat == Init /\ [][FormatNext]_vars

\* main's loop calls cdc_process again and again: a pass that would take a
\* line out of uart_rx_ is not put off forever
SpecRelay == Init /\ [][RelayNext]_vars /\ WF_uart_rx_(CdcTakeLine)

(***************************************************************************)
(* Ring buffer claims (SpecBuf)                                            *)
(***************************************************************************)
\* C3: in every reachable state the pending-newline counter equals the number
\* of '\n' bytes stored between the read index and the write index, pushes
\* onto a full buffer included.
C3_NewlineCounterExact ==
    rb.num_newlines = CountByte(Stored(rb), LF)

\* C4: with push and read_line as the only operations, in any interleaving,
\* the bytes push stored are exactly the bytes read_line consumed followed by
\* the bytes still stored (none twice, none invented, order kept), so that
\* pushed = consumed + dropped + stored, and consumed + dropped = pushed once
\* the buffer is empty.
C4_BytesAccounted ==
    lineOnly =>
      /\ accepted = taken \o Stored(rb)
      /\ Len(accepted) + dropped = Len(taken) + dropped + read_available(rb)
      /\ empty(rb) => Len(taken) + dropped = Len(accepted) + dropped

\* C4 witness: a byte was dropped on a full buffer, read_line consumed a line,
\* and the buffer is empty again.
C4_Witness ==
    /\ lineOnly
    /\ rl_pc = "idle"
    /\ dropped > 0
    /\ Len(taken) > 0
    /\ empty(rb)

C5_IndexRange ==
    /\ read_available(rb) \in 0..(BufferSize(rb) - 1)
    /\ rb.wpos \in 0..(BufferSize(rb) - 1)
    /\ rb.rpos \in 0..(BufferSize(rb) - 1)

C5_FullPushKeeps ==
    [][(/\ read_available(rb) = BufferSize(rb) - 1
        /\ (accepted' # accepted \/ dropped' # dropped))
       => (/\ rb'.wpos = rb.wpos
           /\ rb'.rpos = rb.rpos
           /\ Stored(rb') = Stored(rb))]_vars

\* C5: in every reachable state 0 <= read_available <= capacity-1 and both
\* indices lie in [0, capacity); a push onto a full buffer leaves the write
\* index, the read index and the stored bytes unchanged.
C5_Bounded == []C5_IndexRange /\ C5_FullPushKeeps

\* C5 witness: the buffer is full and a push onto it has happened.
C5_Witness ==
    /\ dropped > 0
    /\ read_available(rb) = BufferSize(rb) - 1

(***************************************************************************)
(* Request/response claims (SpecCmd)                                       *)
(***************************************************************************)
\* C1: once cmd_send has seen the echo, cmd_send_recv returns the first
\* checksum-valid line that parses as Ok or Ng, whatever number of other
\* checksum-valid lines came before it, and returns Timeout only if the echo
\* or an Ok/Ng line did not arrive within the wait.
C1_FirstOkNgReturned ==
    (c_pc = "done" /\ c_kind = "sendrecv") =>
      /\ is_ok_or_ng(c_result) => okngFirst = <<c_result>>
      /\ c_result = new_timeout => (~c_sent \/ okngFirst = <<>>)

\* C2: cmd_send with wait_echo returns true whenever the echo wait consumed a
\* checksum-valid line equal to the command text, however many other
\* checksum-valid lines came before it, and false only when no such line came.
C2_EchoFound ==
    (c_pc = "done" /\ c_kind = "send" /\ wait_echo) => (c_sent <=> echoSeen)

\* C10 (the waits): each echo wait and each result wait ends by its timeout:
\* no pass of the wait loop goes on once timeout_us have elapsed since the
\* wait began, whatever the EMC emits.
C10_WaitsEndByTimeout ==
    [][(/\ c_pc \in {"echo_chk", "res_chk"}
        /\ waitElapsed * TickUs >= rlt_timeout)
       => c_pc' \notin {"echo_rl", "res_rl"}]_vars

(***************************************************************************)
(* Unlock sequence claims (Spec)                                           *)
(***************************************************************************)
\* Operations of the running (or last) unlock invocation, by name and caller
CountEv(op) == Len(SelectSeq(ev, LAMBDA e : e[1] = op))
CountEvBy(op, caller) == Len(SelectSeq(ev, LAMBDA e : e = <<op, caller>>))

\* The status each failing stage is to be reported with
C6_StageStatus(stage) ==
    IF stage = "guard" THEN {kEmcInReset}
    ELSE IF stage = "resolve" THEN {kFwConstsVersionFailed, kFwConstsVersionUnknown}
    ELSE IF stage = "craft" THEN {kSetPayloadTooLarge}
    ELSE IF stage = "puareq1" THEN {kSetPayloadPuareq1Failed}
    ELSE IF stage = "puareq2" THEN {kSetPayloadPuareq2Failed}
    ELSE IF stage = "overwrite" THEN {kFwConstsInvalid}
    ELSE IF stage = "trigger" THEN {kExploitVersionUnexpected}
    ELSE {kExploitFailedEmcReset}

\* C6: when a stage of the unlock sequence fails, the result of the unlock
\* command is the Ng of that stage; when the version probe after the
\* corruption step yields anything but Ng unknown-command, the result is Ng
\* ExploitVersionUnexpected and the hax command is not sent.
C6_StageFailureSurfaced ==
    (u_pc = "done" /\ failedStage # "none") =>
      /\ is_ng(u_result)
      /\ u_result.status_ \in C6_StageStatus(failedStage)
      /\ failedStage = "trigger" => CountEv("hax") = 0

\* C7: in a finished unlock invocation the reset line was pulsed iff the
\* result is Ng ExploitFailedEmcReset, at most once, and only after an
\* out-of-bounds write and a failed post-trigger verification; no stage ran
\* twice.
C7_ResetOnlyAfterFailedVerify ==
    u_pc = "done" =>
      /\ CountEv("reset") > 0 <=> u_result = new_ng(kExploitFailedEmcReset, <<>>)
      /\ CountEv("reset") <= 1
      /\ CountEv("reset") = 1 =>
           /\ CountEv("overwrite") >= 1
           /\ CountEvBy("getserialno", "exploit_trigger") = 1
           /\ failedStage = "verify"
      /\ CountEvBy("getserialno", "autorun") <= 1
      /\ CountEvBy("version", "resolve_constants") <= 1
      /\ CountEv("puareq1") <= 1
      /\ CountEvBy("version", "exploit_trigger") <= 1
      /\ CountEv("hax") <= 1
      /\ CountEvBy("getserialno", "exploit_trigger") <= 1

\* C8 as stated: once an invocation has completed constants resolution and
\* payload delivery, a later invocation with no registry update in between
\* sends no version query for resolution and no puareq1/puareq2.
C8_SetupCached ==
    setupDone0 =>
      /\ CountEvBy("version", "resolve_constants") = 0
      /\ CountEv("puareq1") = 0
      /\ CountEv("puareq2") = 0

\* C8 amended: only constants resolution is cached.  An invocation that
\* begins with the cache flag set sends no version query for resolution;
\* every invocation that reaches the corruption step has itself sent one
\* puareq1 and one puareq2 per 50-byte chunk of the payload; and every
\* invocation that succeeds past the already-unlocked check has performed
\* the corruption, trigger and verify steps.
C8_OnlyResolutionCached ==
    /\ valid0 => CountEvBy("version", "resolve_constants") = 0
    /\ (u_pc \in {"overwrite", "write_oob"} \/ CountEv("filler") > 0) =>
         /\ CountEv("puareq1") = 1
         /\ CountEv("puareq2") = Len(payload) \div chunk_len
         /\ Len(p2Log) = CountEv("puareq2")
         /\ CountEv("puareq2") >= 1
    /\ (u_pc = "done" /\ is_success(u_result) /\ ~is_success(probe1)) =>
         /\ CountEv("filler") >= 1
         /\ CountEv("overwrite") = CountEv("filler")
         /\ CountEvBy("version", "exploit_trigger") = 1
         /\ CountEv("hax") = 1
         /\ CountEvBy("getserialno", "exploit_trigger") = 1

\* C8 witness: an invocation that began after an earlier one had completed
\* resolution and delivery, with the cache flag set, has delivered the
\* payload again and succeeded through steps 6-8.
C8_Witness ==
    /\ setupDone0
    /\ valid0
    /\ u_pc = "done"
    /\ is_success(u_result)
    /\ CountEvBy("version", "resolve_constants") = 0
    /\ CountEv("puareq1") = 1
    /\ CountEv("hax") = 1

\* C9: when the EMC is not in reset and the first getserialno probe returns
\* Ok with status success, the invocation returns success having sent only
\* the probe (no version, puareq1/puareq2, filler/overwrite, hax, no reset
\* pulse), and the cached constants and the cache flag are as they were when
\* it began; this holds for every invocation, however many came before.
C9_AlreadyUnlockedSkips ==
    (u_pc \notin {"idle", "is_unlocked"} /\ is_success(probe1)) =>
      /\ u_pc = "done"
      /\ u_result = new_success
      /\ ev = <<<<"clear", "autorun">>>> \o is_unlocked_ev("autorun")
      /\ p2Log = <<>>
      /\ oobLog = <<>>
      /\ fw_consts_valid_ = valid0
      /\ fw_consts_ = consts0

\* C9 witness: a repeated unlock, begun with constants cached by an earlier
\* invocation, whose probe succeeded.
C9_Witness ==
    /\ u_pc = "done"
    /\ is_success(probe1)
    /\ valid0
    /\ setupDone0

(***************************************************************************)
(* Host command claims (Spec)                                              *)
(***************************************************************************)
IsPassthrough(type) == type \in {kPassthroughUcmd, kPassthroughRom}

\* C11 as stated: once process_cmd is through with a control line (unlock,
\* picoreset, picoemcreset, picoemcrom, picofwconst, picochipconst) the host
\* has been sent exactly two frames, the Unknown-type echo of the raw line and
\* then one Ok/Ng result; a passthrough line sends no frame.
C11_TwoFramesEveryControl ==
    (u_pc \in {"idle", "usb_boot"} /\ host_cmd # <<>>) =>
      IF IsPassthrough(host_type)
      THEN host_out = <<>>
      ELSE /\ Len(host_out) = 2
           /\ host_out[1] = new_unknown(host_cmd)
           /\ is_ok_or_ng(host_out[2])

\* C11 amended: the echo frame is the first frame of every control line;
\* when process_cmd returns from a control line other than picoreset it has
\* sent exactly the echo and then one Ok/Ng result; picoreset sends the echo
\* only and reboots into the USB bootloader; passthrough lines send no frame.
C11_FramesPerCommand ==
    /\ u_pc \notin {"idle", "usb_boot"} =>
         /\ host_type = kUnlock
         /\ host_out = <<new_unknown(host_cmd)>>
    /\ u_pc = "usb_boot" =>
         /\ host_type = kPicoReset
         /\ host_out = <<new_unknown(host_cmd)>>
    /\ (u_pc = "idle" /\ host_cmd # <<>>) =>
         IF IsPassthrough(host_type)
         THEN host_out = <<>>
         ELSE /\ host_type # kPicoReset
              /\ Len(host_out) = 2
              /\ host_out[1] = new_unknown(host_cmd)
              /\ is_ok_or_ng(host_out[2])

\* C11 witness: process_cmd has returned from a picoemcrom line that failed,
\* with its two frames sent.
C11_Witness ==
    /\ u_pc = "idle"
    /\ host_type = kEmcRom
    /\ Len(host_out) = 2
    /\ is_ng(host_out[2])

\* The bytes `text` decodes to, two hex digits a byte
DecodesTo(text, bytes) ==
    /\ Len(text) = 2 * Len(bytes)
    /\ \A i \in 1..Len(bytes) :
         /\ IsHexDigit(text[2 * i - 1])
         /\ IsHexDigit(text[2 * i])
         /\ bytes[i] = 16 * HexVal(text[2 * i - 1]) + HexVal(text[2 * i])

\* what process_cmd does with a ROM passthrough line, waiting for nothing
C12_RomPassthrough ==
    (u_pc = "idle" /\ host_cmd # <<>> /\ host_type = kPassthroughRom) =>
      /\ host_out = <<>>
      /\ IF Len(host_cmd) % 2 = 0 /\ \A i \in 1..Len(host_cmd) : IsHexDigit(host_cmd[i])
         THEN /\ DecodesTo(host_cmd, pt_out)
              /\ ev = <<<<"write", "process_cmd">>>>
         ELSE /\ pt_out = <<>>
              /\ ev = <<>>

\* C12 as stated: for a primary passthrough line process_cmd writes the line
\* with its checksum suffix to the UART and makes the echo wait of cmd_send,
\* without waiting for an Ok/Ng response; for a ROM passthrough line it
\* writes the hex-decoded bytes and waits for nothing.
C12_PassthroughEchoVerified ==
    /\ (u_pc = "idle" /\ host_cmd # <<>> /\ host_type = kPassthroughUcmd) =>
         /\ validate_line(pt_out) = [ok |-> TRUE, line |-> host_cmd]
         /\ ev = <<<<"write", "cmd_send">>, <<"echo_wait", "cmd_send">>>>
         /\ host_out = <<>>
    /\ C12_RomPassthrough

\* C12 amended: for a primary passthrough line process_cmd writes the line
\* with its checksum suffix and a newline to the UART and returns without
\* waiting for the echo or for a response; for a ROM passthrough line that is
\* valid hex it writes the decoded bytes, for one that is not it writes
\* nothing, and in both cases waits for nothing.
C12_PassthroughNoWait ==
    /\ (u_pc = "idle" /\ host_cmd # <<>> /\ host_type = kPassthroughUcmd) =>
         /\ validate_line(pt_out) = [ok |-> TRUE, line |-> host_cmd]
         /\ pt_out[Len(pt_out)] = LF
         /\ ev = <<<<"write", "cmd_send">>>>
         /\ host_out = <<>>
    /\ C12_RomPassthrough

\* C12 witness: process_cmd has returned from a primary passthrough line
\* that it wrote to the UART.
C12_Witness ==
    /\ u_pc = "idle"
    /\ host_type = kPassthroughUcmd
    /\ host_cmd = STR_textline
    /\ pt_out # <<>>

\* The control keywords and the command each stands for
C13_Keywords ==
    {<<STR_unlock, kUnlock>>, <<STR_picoreset, kPicoReset>>,
     <<STR_picoemcreset, kEmcReset>>, <<STR_picoemcrom, kEmcRom>>,
     <<STR_picofwconst, kSetFwConsts>>, <<STR_picochipconst, kSetChipConsts>>}

\* The classification the claim gives a line under a value of the flag
C13_Expected(l, flag) ==
    IF \E k \in C13_Keywords : starts_with(l, k[1])
    THEN {k[2] : k \in {kw \in C13_Keywords : starts_with(l, kw[1])}}
    ELSE IF flag THEN {kPassthroughRom} ELSE {kPassthroughUcmd}

C13_Lines == HostLines \cup FwConstCmds \cup {STR_unlock}

\* C13: the ROM-mode flag is true iff the last successfully processed
\* picoemcrom line was 'picoemcrom enter' (false at first and after
\* 'picoemcrom exit'); a picoemcrom line with another argument returns Ng
\* unknown-command and leaves the flag alone; a line that starts with a
\* control keyword is classified as that command whatever the flag, every
\* other line as ROM passthrough when the flag is set and as primary
\* passthrough when it is not.
C13_RomModeAndClassification ==
    /\ in_rom_ <=> lastRom = STR_emcrom_enter
    /\ lastRom \in {<<>>, STR_emcrom_enter, STR_emcrom_exit}
    /\ (/\ u_pc = "idle"
        /\ host_type = kEmcRom
        /\ host_cmd \notin {STR_emcrom_enter, STR_emcrom_exit}) =>
         /\ host_out[2] = new_ng(kUcmdUnknownCmd, <<>>)
         /\ in_rom_ = host_rom0
    /\ host_cmd # <<>> => C13_Expected(host_cmd, host_rom0) = {host_type}
    /\ \A l \in C13_Lines :
         C13_Expected(l, in_rom_) = {parse_command_type(l, in_rom_)}

\* C13 witness: 'picoemcrom exit' was processed in ROM mode and cleared the flag.
C13_Witness ==
    /\ u_pc = "idle"
    /\ host_cmd = STR_emcrom_exit
    /\ host_rom0
    /\ ~in_rom_


(***************************************************************************)
(* C14: the frames cdc_process relays in ROM mode                          *)
(***************************************************************************)
ResultTypes == {kTimeout, kUnknown, kComment, kInfo, kOk, kNg}

\* C14 as stated: a frame cdc_process relays in ROM mode carries a type tag
\* that is none of the six Result type tags.
C14_RomFrameDistinctTag ==
    (cdc_frame # <<>> /\ cdc_rom) => cdc_frame[1] \notin ResultTypes

\* C14, amended: a frame cdc_process relays in ROM mode is an Ok frame whose
\* status is kRomFrame (0xdead000a) and whose payload is the hex encoding of
\* exactly the bytes that pass drained, and every pass that drains bytes in
\* ROM mode relays them; outside ROM mode a relayed frame is Ok with that
\* status only if the EMC's own line reads "OK DEAD000A".
C14_RomFrameIsOkWithRomStatus ==
    /\ (cdc_frame # <<>> /\ cdc_rom) =>
         /\ cdc_drained # <<>>
         /\ cdc_frame[1] = kOk
         /\ SubSeq(cdc_frame, 2, 5) = SizeBytes(4 + 2 * Len(cdc_drained))
         /\ SubSeq(cdc_frame, 6, 9) = U32Bytes(kRomFrame)
         /\ DecodesTo(SubSeq(cdc_frame, 10, Len(cdc_frame)), cdc_drained)
    /\ (cdc_rom /\ cdc_drained # <<>>) => cdc_frame # <<>>
    /\ (/\ cdc_frame # <<>> /\ ~cdc_rom /\ cdc_frame[1] = kOk
        /\ SubSeq(cdc_frame, 6, 9) = U32Bytes(kRomFrame)) =>
         starts_with(cdc_drained, STR_ok_romframe)

C14_Witness == cdc_rom /\ cdc_frame # <<>> /\ cdc_drained = <<255, LF, 0>>


(***************************************************************************)
(* C15: a reserved byte in the target address                              *)
(***************************************************************************)
C15_Reserved == {8, 13, 10, 21}

C15_HasReserved(a) ==
    \/ a[2] % 256 \in C15_Reserved
    \/ a[2] \div 256 \in C15_Reserved
    \/ a[1] % 256 \in C15_Reserved
    \/ a[1] \div 256 \in C15_Reserved

\* addresses with each reserved byte in each of the four positions
C15_Addrs ==
    UNION {{U32(23, 56832 + b), U32(23, 256 * b + 156), U32(b, 57000),
            U32(256 * b + 23, 57000)} : b \in C15_Reserved}

\* C15: when the corruption step starts on a target address one of whose four
\* bytes is backspace, CR, LF or NAK, it ends the unlock at once with Ng
\* FwConstsInvalid: no raw write (filler, overwrite or pre-write) was or is
\* made and no reset pulse is issued.
C15_ReservedByteNoWrite ==
    [][/\ (u_pc = "overwrite" /\ C15_HasReserved(fw_consts_.ucmd_ua_buf_addr)) =>
            /\ u_pc' = "done"
            /\ u_result' = new_ng(kFwConstsInvalid, <<>>)
            /\ oobLog' = <<>>
            /\ oob_queue' = <<>>
            /\ \A op \in {"filler", "overwrite", "reset"} :
                 Len(SelectSeq(ev', LAMBDA e : e[1] = op)) = 0
       /\ \A a \in C15_Addrs :
            /\ C15_HasReserved(a)
            /\ overwrite_cmd_table_ptr(a) = [ok |-> FALSE, writes |-> <<>>]]_vars

C15_Witness ==
    /\ u_pc = "done"
    /\ failedStage = "overwrite"
    /\ C15_HasReserved(fw_consts_.ucmd_ua_buf_addr)
    /\ u_result = new_ng(kFwConstsInvalid, <<>>)
    /\ oobLog = <<>>
    /\ CountEv("puareq2") > 0


(***************************************************************************)
(* C16: padding and chunking of the payload                                *)
(***************************************************************************)
C16_prefix_len == Len(payload_prefix(U32(0, 0)))

\* the smallest multiple of 50 that is >= n
C16_NextMultiple(n) == ((n + 49) \div 50) * 50

\* C16: once set_payload has delivered the payload, its length is the
\* smallest multiple of 50 that is >= the unpadded length (prefix plus
\* shellcode; no padding when that is a multiple of 50 already), and exactly
\* length / 50 puareq2 requests were sent, with indices 0, 1, 2, ... in
\* order, each with at most 50 bytes.
C16_PaddedToSmallestMultiple ==
    u_pc = "overwrite" =>
      LET L == C16_prefix_len + Len(fw_consts_.shellcode)
      IN  /\ L <= 350
          /\ Len(payload) = C16_NextMultiple(L)
          /\ Len(p2Log) = C16_NextMultiple(L) \div 50
          /\ \A i \in 1..Len(p2Log) :
               /\ p2Log[i].index = i - 1
               /\ Len(p2Log[i].chunk) <= 50


(***************************************************************************)
(* C17: resolve_constants                                                  *)
(***************************************************************************)
C17_OkSuccess(r) == r.type_ = kOk /\ r.status_ = kSuccess

\* what resolve_constants does on the version reply r, in the session's
\* present state
C17_OnReply(r) ==
    LET rc == resolve_constants(fw_consts_valid_, fw_consts_, fw_constants_map, r)
        untouched == /\ rc.fw_consts_valid_ = fw_consts_valid_
                     /\ rc.fw_consts_ = fw_consts_
    IN  /\ fw_consts_valid_ =>
             /\ rc.result = new_success
             /\ ~rc.queried
             /\ untouched
        /\ ~fw_consts_valid_ =>
             /\ rc.queried
             /\ (C17_OkSuccess(r) /\ r.response_ \in DOMAIN fw_constants_map) =>
                  /\ rc.result = new_success
                  /\ rc.fw_consts_valid_
                  /\ rc.fw_consts_ = fw_constants_map[r.response_]
             /\ ~C17_OkSuccess(r) =>
                  /\ is_ng(rc.result)
                  /\ rc.result.status_ = kFwConstsVersionFailed
                  /\ untouched
             /\ (C17_OkSuccess(r) /\ r.response_ \notin DOMAIN fw_constants_map) =>
                  /\ is_ng(rc.result)
                  /\ rc.result.status_ = kFwConstsVersionUnknown
                  /\ untouched

C17_Queries(log) ==
    Len(SelectSeq(log, LAMBDA e : e = <<"version", "resolve_constants">>))

\* C17: resolve_constants returns success without a query when the cache
\* flag is set; otherwise it sends exactly one version query and (a) on an
\* Ok/success reply whose payload is a key of the constants table caches that
\* entry ("E1E 0001 0000 0004 13D0" gives address 0x1762e8), sets the flag and
\* returns success, (b) on any other reply than Ok/success returns Ng
\* FwConstsVersionFailed, (c) on a version that is no key returns Ng
\* FwConstsVersionUnknown; in (b) and (c) flag and cached constants stay as
\* they were and the unlock ends without a second query.
C17_ResolveConstants ==
    [][/\ \A r \in EmcResults : C17_OnReply(r)
       /\ resolve_constants(FALSE, FwConstantsEmpty, fw_constants_map,
                            from_str(STR_ok_v1)).fw_consts_.ucmd_ua_buf_addr
            = U32(23, 25320)
       /\ u_pc = "resolve" =>
            /\ C17_Queries(ev') - C17_Queries(ev)
                 = IF fw_consts_valid_ THEN 0 ELSE 1
            /\ u_pc' \in {"craft", "done"}
            /\ u_pc' = "craft" =>
                 /\ fw_consts_valid_'
                 /\ fw_consts_valid_ => fw_consts_' = fw_consts_
                 /\ ~fw_consts_valid_ =>
                      \E k \in DOMAIN fw_constants_map :
                        fw_consts_' = fw_constants_map[k]
            /\ u_pc' = "done" =>
                 /\ is_ng(u_result')
                 /\ u_result'.status_ \in
                      {kFwConstsVersionFailed, kFwConstsVersionUnknown}
                 /\ ~fw_consts_valid_'
                 /\ fw_consts_' = fw_consts_]_vars

C17_Witness ==
    /\ u_pc = "craft"
    /\ ~valid0
    /\ fw_consts_valid_
    /\ fw_consts_ = FwEntry1
    /\ fw_consts_.ucmd_ua_buf_addr = U32(23, 25320)
    /\ C17_Queries(ev) = 1


(***************************************************************************)
(* C18: unlock while the EMC is held in reset                              *)
(***************************************************************************)
\* C18: when the reset-detect line shows the EMC in reset as unlock starts,
\* unlock returns Ng EmcInReset at once: it has written nothing to the UART,
\* has not cleared the ring buffer, has left the cached constants and the
\* cache flag as they were and has issued no reset pulse.
C18_InResetReturnsAtOnce ==
    (reset0 /\ u_pc # "idle") =>
      /\ u_pc = "done"
      /\ u_result = new_ng(kEmcInReset, <<>>)
      /\ ev = <<>>
      /\ pt_out = <<>>
      /\ oobLog = <<>>
      /\ p2Log = <<>>
      /\ fw_consts_valid_ = valid0
      /\ fw_consts_ = consts0

C18_Witness ==
    /\ reset0
    /\ u_pc = "done"
    /\ valid0
    /\ fw_consts_valid_
    /\ u_result = new_ng(kEmcInReset, <<>>)


(***************************************************************************)
(* C19: validate_line                                                      *)
(***************************************************************************)
\* L without its trailing CR and LF bytes
C19_Stripped(L) ==
    LET n == CHOOSE k \in 0..Len(L) :
               /\ \A i \in (k + 1)..Len(L) : L[i] \in {13, 10}
               /\ k = 0 \/ L[k] \notin {13, 10}
    IN  SubSeq(L, 1, n)

C19_IsHex(c) == c \in (48..57) \cup (65..70) \cup (97..102)

C19_Digit(c) ==
    IF c \in 48..57 THEN c - 48 ELSE IF c \in 65..70 THEN c - 55 ELSE c - 87

\* S ends with ':' and two hex digits whose value is the sum modulo 256 of
\* the bytes before that colon
C19_Suffixed(S) ==
    LET n == Len(S)
    IN  /\ n >= 3
        /\ S[n - 2] = 58
        /\ C19_IsHex(S[n - 1])
        /\ C19_IsHex(S[n])
        /\ 16 * C19_Digit(S[n - 1]) + C19_Digit(S[n])
             = SumBytes(SubSeq(S, 1, n - 3)) % 256

\* text as cmd_send frames it, with d added to the checksum byte
C19_Framed(text, d) ==
    LET c == (SumBytes(text) + d) % 256
    IN  text \o <<58>> \o <<HexChar(c \div 16), HexChar(c % 16)>> \o <<10>>

\* C19: validate_line(L) returns true iff L is non-empty and, its trailing
\* CR/LF removed, ends with ':' and exactly two hex digits whose value is the
\* sum modulo 256 of the bytes before that colon, and then leaves in L
\* exactly the bytes before the colon; so a line as cmd_send frames it
\* validates and strips back to its text, and the same line with another
\* checksum byte is rejected.
C19_ValidateLine ==
    /\ pf_op = "validate_line" =>
         /\ pf_ret.ok <=> (pf_line # <<>> /\ C19_Suffixed(C19_Stripped(pf_line)))
         /\ pf_ret.ok =>
              pf_ret.line = SubSeq(C19_Stripped(pf_line), 1,
                                   Len(C19_Stripped(pf_line)) - 3)
    /\ validate_line(C19_Framed(pf_line, 0)) = [ok |-> TRUE, line |-> pf_line]
    /\ Frame(pf_line) = C19_Framed(pf_line, 0)
    /\ \A d \in {1, 15, 16, 255} : ~validate_line(C19_Framed(pf_line, d)).ok
    /\ validate_line(<<74, 58, 52, 65, 13, 10>>) = [ok |-> TRUE, line |-> <<74>>]

C19_Witness ==
    /\ pf_op = "validate_line"
    /\ pf_line = <<74, 58, 52, 65, 10>>
    /\ pf_ret = [ok |-> TRUE, line |-> <<74>>]


(***************************************************************************)
(* C20: Result::from_str                                                   *)
(***************************************************************************)
C20_Prefixed(s, p) == Len(s) >= Len(p) /\ SubSeq(s, 1, Len(p)) = p

C20_Hex4(s, i) ==
    4096 * C19_Digit(s[i]) + 256 * C19_Digit(s[i + 1])
      + 16 * C19_Digit(s[i + 2]) + C19_Digit(s[i + 3])

\* "OK " or "NG ", eight hex digits, then the end or a space and free text
C20_StatusLine(s) ==
    /\ C20_Prefixed(s, <<79, 75, 32>>) \/ C20_Prefixed(s, <<78, 71, 32>>)
    /\ Len(s) >= 11
    /\ \A i \in 4..11 : C19_IsHex(s[i])
    /\ Len(s) = 11 \/ s[12] = 32

\* The classification of the line s, in the order of the claim; a prefix
\* "# " or "$$ " counts when at least rest bytes follow it.
C20_Classify(s, rest) ==
    IF C20_Prefixed(s, <<35, 32>>) /\ Len(s) >= 2 + rest
    THEN [type_ |-> kComment, status_ |-> kInvalidStatus,
          response_ |-> SubSeq(s, 3, Len(s))]
    ELSE IF C20_Prefixed(s, <<36, 36, 32>>) /\ Len(s) >= 3 + rest
    THEN [type_ |-> kInfo, status_ |-> kInvalidStatus,
          response_ |-> SubSeq(s, 4, Len(s))]
    ELSE IF C20_StatusLine(s)
    THEN [type_ |-> IF s[1] = 79 THEN kOk ELSE kNg,
          status_ |-> <<C20_Hex4(s, 4), C20_Hex4(s, 8)>>,
          response_ |-> SubSeq(s, 13, Len(s))]
    ELSE [type_ |-> kUnknown, status_ |-> kInvalidStatus, response_ |-> s]

\* C20 as stated: every line with the prefix "# " is Comment and every other
\* line with the prefix "$$ " is Info, with the remainder as payload.
C20_PrefixAlwaysClassified ==
    pf_op = "from_str" => pf_ret = C20_Classify(pf_line, 0)

\* C20, amended: from_str is total and classifies every line in this order:
\* a line with the prefix "# " and at least one more character is Comment
\* with the remainder as payload; otherwise a line with the prefix "$$ " and
\* at least one more character is Info with the remainder as payload;
\* otherwise a line that is "OK " or "NG ", exactly 8 hex digits and then the
\* end of the line or a single space and free text is Ok/Ng with that status
\* and that text; every other line, the bare "# " and "$$ " among them, is
\* Unknown with the original text as payload.  Comment, Info and Unknown
\* carry the invalid-status sentinel and from_str never yields Timeout.
C20_FromStrClassifies ==
    pf_op = "from_str" =>
      /\ pf_ret = C20_Classify(pf_line, 1)
      /\ pf_ret.type_ # kTimeout
      /\ pf_ret.type_ \in {kComment, kInfo, kUnknown} =>
           pf_ret.status_ = U32(65535, 65535)
      /\ pf_line \in {<<35, 32>>, <<36, 36, 32>>} =>
           pf_ret = [type_ |-> kUnknown, status_ |-> kInvalidStatus,
                     response_ |-> pf_line]

C20_Witness ==
    /\ pf_op = "from_str"
    /\ pf_line = <<78, 71, 32, 70, 48, 48, 48, 48, 48, 48, 54, 32, 71>>
    /\ pf_ret = [type_ |-> kNg, status_ |-> U32(61440, 6), response_ |-> <<71>>]


(***************************************************************************)
(* C21: from_str after format                                              *)
(***************************************************************************)
\* C21: for every Ok or Ng Result r, whatever its status and its payload
\* (free of line terminators, the empty payload included),
\* from_str(format(r)) equals r in type, status and payload.
C21_FormatRoundTrip ==
    (pf_op = "format" /\ pf_ret.r.type_ \in {kOk, kNg}) =>
      /\ pf_ret.back.type_ = pf_ret.r.type_
      /\ pf_ret.back.status_ = pf_ret.r.status_
      /\ pf_ret.back.response_ = pf_ret.r.response_
      /\ Len(pf_ret.text) = 12 + Len(pf_ret.r.response_)

C21_Witness ==
    /\ pf_op = "format"
    /\ pf_ret.r = [type_ |-> kNg, status_ |-> U32(2748, 4660),
                   response_ |-> <<32, 71>>]
    /\ pf_ret.back = pf_ret.r


(***************************************************************************)
(* C22: the host frame                                                     *)
(***************************************************************************)
\* the width of the length field: sizeof(size_t) on the target
C22_LenWidth == Len(SizeBytes(0))

\* the value of the little-endian field of w bytes that starts at f[i]
RECURSIVE C22_Field(_, _, _)
C22_Field(f, i, w) ==
    IF w = 0 THEN 0 ELSE f[i] + 256 * C22_Field(f, i + 1, w - 1)

\* C22: the frame to_usb_response makes of a Result is one type-tag byte,
\* the length field, the four status bytes only for Ok and Ng, then the
\* payload bytes; the length field holds the payload length, plus 4 for Ok
\* and Ng, and the frame is 1 + the width of the length field + that value
\* bytes long.
C22_FrameLayout ==
    pf_op = "to_usb_response" =>
      LET f == pf_ret.frame
          r == pf_ret.r
          n == Len(r.response_)
          okng == r.type_ \in {kOk, kNg}
          field == C22_Field(f, 2, C22_LenWidth)
          body == 1 + C22_LenWidth
      IN  /\ Len(f) >= body
          /\ f[1] = r.type_
          /\ field = IF okng THEN n + 4 ELSE n
          /\ Len(f) = body + field
          /\ okng => /\ C22_Field(f, body + 1, 2) = r.status_[2]
                     /\ C22_Field(f, body + 3, 2) = r.status_[1]
          /\ SubSeq(f, Len(f) - n + 1, Len(f)) = r.response_

C22_Witness ==
    /\ pf_op = "to_usb_response"
    /\ pf_ret.r = [type_ |-> kNg, status_ |-> U32(61440, 6), response_ |-> <<71, 32>>]
    /\ pf_ret.frame = <<5, 6, 0, 0, 0, 6, 0, 0, 240, 71, 32>>


\* ---------------------------------------------------------------------
\* C23: out-of-bounds writes only after every delivery request was
\* acknowledged

\* what the claim calls acknowledged: an Ok reply with status success
C23_Acked(a) ==
    a.type_ = kOk /\ a.status_ = kSuccess

\* the number of delivery chunks of the payload of this invocation
C23_Chunks ==
    Len(payload) \div chunk_len

\* C23: within an unlock invocation an out-of-bounds write happens only
\* after the priming request and every delivery chunk of that invocation
\* were acknowledged with Ok/success; a request that is not acknowledged
\* is the last one sent, unlock then returns Ng SetPayloadPuareq1Failed
\* (priming) or Ng SetPayloadPuareq2Failed (a chunk), and no out-of-bounds
\* write, hax command or reset pulse has happened in that invocation
C23_OobOnlyAfterAllAcked ==
    /\ Len(ackLog) = CountEv("puareq1") + CountEv("puareq2")
    /\ (CountEv("filler") + CountEv("overwrite") > 0 \/ oobLog # <<>>) =>
         /\ Len(payload) > 0
         /\ Len(ackLog) = 1 + C23_Chunks
         /\ \A i \in 1..Len(ackLog) : C23_Acked(ackLog[i])
    /\ \A i \in 1..Len(ackLog) :
         ~C23_Acked(ackLog[i]) =>
           /\ i = Len(ackLog)
           /\ u_pc = "done"
           /\ u_result = new_ng(IF i = 1 THEN kSetPayloadPuareq1Failed
                                         ELSE kSetPayloadPuareq2Failed, <<>>)
           /\ oobLog = <<>>
           /\ CountEv("filler") + CountEv("overwrite")
                + CountEv("hax") + CountEv("reset") = 0

\* C23 witness: the second chunk of an invocation went unacknowledged
\* after the priming request and the first chunk were acknowledged
C23_Witness ==
    /\ u_pc = "done"
    /\ Len(ackLog) = 3
    /\ C23_Acked(ackLog[1])
    /\ C23_Acked(ackLog[2])
    /\ ackLog[3].type_ = kNg
    /\ Len(p2Log) = 2
    /\ u_result = new_ng(kSetPayloadPuareq2Failed, <<>>)


\* ---------------------------------------------------------------------
\* C24: the pre-writes and the final write of overwrite_cmd_table_ptr

\* byte i (0 the least significant) of a 32-bit address
C24_Byte(a, i) ==
    IF i = 0 THEN a[2] % 256
    ELSE IF i = 1 THEN a[2] \div 256
    ELSE IF i = 2 THEN a[1] % 256
    ELSE a[1] \div 256

C24_Printable(b) == 32 <= b /\ b <= 127

\* the address as the four bytes handed to write_oob, least significant first
C24_Full(a) == <<C24_Byte(a, 0), C24_Byte(a, 1), C24_Byte(a, 2), C24_Byte(a, 3)>>

\* the address with byte i and all less significant bytes zero
C24_Cleared(a, i) ==
    [j \in 1..4 |-> IF j - 1 <= i THEN 0 ELSE C24_Byte(a, j - 1)]

\* the pre-writes for the bytes i, i - 1, ..., 0, in that order
RECURSIVE C24_PreWrites(_, _)
C24_PreWrites(a, i) ==
    IF i < 0 THEN <<>>
    ELSE (IF C24_Printable(C24_Byte(a, i)) THEN <<C24_Cleared(a, i)>> ELSE <<>>)
           \o C24_PreWrites(a, i - 1)

C24_Expected(a) == C24_PreWrites(a, 3) \o <<C24_Full(a)>>

\* addresses without a reserved byte: no printable byte, one in each
\* position, two, three and four printable bytes, and the bounds 0x1F, 0x20,
\* 0x7F and 0x80 of the printable range
C24_Addrs ==
    {U32(23, 56988), U32(23, 25320), U32(23, 56865), U32(65, 57000), U32(16663, 57000),
     U32(24, 19868), U32(25, 9756), U32(65, 25320), U32(16706, 17220), U32(16663, 25441),
     U32(0, 7968), U32(0, 32640), U32(8223, 32896)}

\* C24: for a target address with no reserved byte the corruption step
\* issues one pre-write for each byte in [0x20,0x80), from the most to the
\* least significant, each with that byte and all less significant bytes zero
\* and the more significant bytes kept, and then exactly one write of the
\* complete address: one write with no printable byte, two with exactly one,
\* and the last write is always the full target
C24_PreWritesThenTarget ==
    /\ \A a \in C24_Addrs :
         /\ overwrite_cmd_table_ptr(a) = [ok |-> TRUE, writes |-> C24_Expected(a)]
         /\ Len(C24_Expected(a))
              = 1 + Cardinality({i \in 0..3 : C24_Printable(C24_Byte(a, i))})
    /\ oobLog # <<>> =>
         LET exp == C24_Expected(fw_consts_.ucmd_ua_buf_addr)
         IN  /\ Len(oobLog) <= Len(exp)
             /\ \A i \in 1..Len(oobLog) :
                  oobLog[i].output2 = (<<12>> \o exp[i]) \o <<0, 21>>
             /\ Len(oobLog) + Len(oob_queue) = Len(exp)
             /\ u_pc # "write_oob" =>
                  /\ Len(oobLog) = Len(exp)
                  /\ oobLog[Len(oobLog)].output2
                       = (<<12>> \o U32Bytes(fw_consts_.ucmd_ua_buf_addr)) \o <<0, 21>>
             /\ CountEv("overwrite") = Len(oobLog)

\* C24 witness: the corruption step finished for the address 0x1762e8, whose
\* second byte 0x62 is printable: a pre-write of 00 00 17 00, then the address
C24_Witness ==
    /\ u_pc = "trigger"
    /\ fw_consts_.ucmd_ua_buf_addr = U32(23, 25320)
    /\ Len(oobLog) = 2
    /\ oobLog[1].output2 = <<12, 0, 0, 23, 0, 0, 21>>
    /\ oobLog[2].output2 = <<12, 232, 98, 23, 0, 0, 21>>


\* ---------------------------------------------------------------------
\* C25: the cap on the delivered payload

\* C25: whatever craft_and_set_payload delivers is at most 350 bytes after
\* padding, in at most 7 chunks of 50 bytes; a payload longer than 350 bytes
\* before padding is refused with Ng SetPayloadTooLarge before any request
C25_DeliveredWithinCap ==
    /\ Len(payload) <= payload_max_len
    /\ Len(p2Log) <= 7
    /\ \A i \in 1..Len(p2Log) : p2Log[i].index < 7
    /\ (u_pc = "craft"
          /\ C16_prefix_len + Len(fw_consts_.shellcode) > payload_max_len) =>
         ~craft_payload(fw_consts_).ok


\* ---------------------------------------------------------------------
\* C26: picofwconst and the registry

\* the positions of the spaces of a command line
C26_Spaces(cmd) == {i \in 1..Len(cmd) : cmd[i] = SPACE}

C26_Nth(S, n) == CHOOSE i \in S : Cardinality({j \in S : j < i}) = n - 1

C26_IsHex(c) == (48 <= c /\ c <= 57) \/ (65 <= c /\ c <= 70) \/ (97 <= c /\ c <= 102)

C26_AllHex(str) == \A i \in 1..Len(str) : C26_IsHex(str[i])

C26_Digit(c) == IF c <= 57 THEN c - 48 ELSE IF c <= 70 THEN c - 55 ELSE c - 87

\* the three fields after the command word of a line with exactly three spaces
C26_Field(cmd, n) ==
    LET S == C26_Spaces(cmd)
        from == C26_Nth(S, n) + 1
        to == IF n = 3 THEN Len(cmd) ELSE C26_Nth(S, n + 1) - 1
    IN  SubSeq(cmd, from, to)

\* well formed: four parts, an address of eight hex digits, a shellcode of
\* an even number of hex digits
C26_WellFormed(cmd) ==
    /\ Cardinality(C26_Spaces(cmd)) = 3
    /\ Len(C26_Field(cmd, 2)) = 8
    /\ C26_AllHex(C26_Field(cmd, 2))
    /\ Len(C26_Field(cmd, 3)) % 2 = 0
    /\ C26_AllHex(C26_Field(cmd, 3))

\* the registry key: the version with its dots replaced by spaces
C26_Key(cmd) ==
    LET v == C26_Field(cmd, 1)
    IN  [i \in 1..Len(v) |-> IF v[i] = 46 THEN SPACE ELSE v[i]]

\* the registry entry the command describes
C26_Entry(cmd) ==
    LET a == C26_Field(cmd, 2)
        h == C26_Field(cmd, 3)
    IN  [ucmd_ua_buf_addr |->
           <<((C26_Digit(a[1]) * 16 + C26_Digit(a[2])) * 16 + C26_Digit(a[3])) * 16
               + C26_Digit(a[4]),
             ((C26_Digit(a[5]) * 16 + C26_Digit(a[6])) * 16 + C26_Digit(a[7])) * 16
               + C26_Digit(a[8])>>,
         shellcode |-> [i \in 1..(Len(h) \div 2) |->
                          16 * C26_Digit(h[2 * i - 1]) + C26_Digit(h[2 * i])]]

\* C26: a well-formed picofwconst inserts or overrides the registry entry of
\* its version (dots replaced by spaces), leaves the other entries alone and
\* invalidates the cached constants; the cache flag is set again only by a
\* resolution that queried the version and took an entry of the registry as
\* it then is.  A malformed picofwconst returns Ng FwConstsInvalid and leaves
\* the registry, the cached constants and the cache flag unchanged.
C26_SetFwConsts ==
    [][/\ (u_pc = "idle" /\ host_type' = kSetFwConsts) =>
            IF C26_WellFormed(host_cmd')
            THEN /\ u_result' = new_success
                 /\ DOMAIN fw_constants_map'
                      = DOMAIN fw_constants_map \cup {C26_Key(host_cmd')}
                 /\ fw_constants_map'[C26_Key(host_cmd')] = C26_Entry(host_cmd')
                 /\ \A k \in DOMAIN fw_constants_map :
                      k # C26_Key(host_cmd') =>
                        fw_constants_map'[k] = fw_constants_map[k]
                 /\ ~fw_consts_valid_'
            ELSE /\ u_result' = new_ng(kFwConstsInvalid, <<>>)
                 /\ fw_constants_map' = fw_constants_map
                 /\ fw_consts_' = fw_consts_
                 /\ fw_consts_valid_' = fw_consts_valid_
       /\ (~fw_consts_valid_ /\ fw_consts_valid_') =>
            /\ u_pc = "resolve"
            /\ C17_Queries(ev') = C17_Queries(ev) + 1
            /\ \E k \in DOMAIN fw_constants_map :
                 fw_consts_' = fw_constants_map[k]
       /\ (u_pc = "resolve" /\ ~fw_consts_valid_) =>
            C17_Queries(ev') = C17_Queries(ev) + 1]_vars

\* C26 witness: the picofwconst for version E1E 0009, address 0x0017DE9C and
\* shellcode 00 BD was accepted: the registry holds that entry next to the
\* compiled-in ones and the cache is invalid
C26_Witness ==
    /\ u_pc = "idle"
    /\ host_out = control_frames(STR_fwconst_plain, new_success)
    /\ fw_constants_map[C26_Key(STR_fwconst_plain)]
         = [ucmd_ua_buf_addr |-> U32(23, 56988), shellcode |-> <<0, 189>>]
    /\ ~fw_consts_valid_
    /\ fw_consts_ = FwConstantsEmpty
    /\ fw_constants_map[FwVersion1] = FwEntry1


\* ---------------------------------------------------------------------
\* C27: read_line and a line that fails validation

\* the position of the first newline of a byte sequence, 0 if there is none
C27_FirstLF(st) ==
    IF \E k \in 1..Len(st) : st[k] = 10
    THEN CHOOSE k \in 1..Len(st) : st[k] = 10 /\ \A j \in 1..(k - 1) : st[j] # 10
    ELSE 0

\* a line (without its newline) that passes validation, and its text
C27_Valid(l) == l # <<>> /\ C19_Suffixed(C19_Stripped(l))

C27_Text(l) == SubSeq(C19_Stripped(l), 1, Len(C19_Stripped(l)) - 3)

\* read_line on buffer b with an empty string, as the claim describes it
C27_ReadLine(b) ==
    LET st == Stored(b)
        k == C27_FirstLF(st)
        l1 == SubSeq(st, 1, k - 1)
        rest == SubSeq(st, k + 1, Len(st))
        r == read_line(b, <<>>)
        k2 == C27_FirstLF(rest)
        l2 == SubSeq(rest, 1, k2 - 1)
        r2 == read_line(r.b, r.line)
    IN  /\ (b.num_newlines = 0 \/ st = <<>>) =>
              /\ ~r.ret
              /\ r.line = <<>>
              /\ r.b = b
        /\ (k > 0 /\ ~C27_Valid(l1)) =>
              /\ ~r.ret
              /\ r.line = <<>>
              /\ Stored(r.b) = rest
              /\ r.b.num_newlines = b.num_newlines - 1
              /\ r.b.wpos = b.wpos
              /\ r.b.buffer = b.buffer
              /\ (k2 > 0 /\ C27_Valid(l2)) =>
                    /\ r2.ret
                    /\ r2.line = C27_Text(l2)
                    /\ Stored(r2.b) = SubSeq(rest, k2 + 1, Len(rest))
                    /\ r2.b.num_newlines = b.num_newlines - 2

\* C27: read_line called with an empty string on a buffer whose first
\* complete line fails validation returns false, leaves the string empty
\* and consumes exactly that line and its newline (the newline counter one
\* less, nothing after the line touched); the next call returns the
\* following valid line intact.  With no newline pending or the buffer empty
\* it returns false and changes nothing.  cdc_process outside ROM mode
\* relays no frame for the failed line.
C27_InvalidLineConsumedAlone ==
    [][/\ C27_ReadLine(uart_rx_)
       /\ (~in_rom_ /\ <<cdc_frame, cdc_drained, cdc_rom>>'
                         # <<cdc_frame, cdc_drained, cdc_rom>>) =>
            LET st == Stored(uart_rx_)
                k == C27_FirstLF(st)
            IN  /\ uart_rx_' = read_line(uart_rx_, <<>>).b
                /\ (k > 0 /\ ~C27_Valid(SubSeq(st, 1, k - 1))) =>
                     /\ cdc_frame' = <<>>
                     /\ cdc_drained' = SubSeq(st, 1, k - 1)
                     /\ Stored(uart_rx_') = SubSeq(st, k + 1, Len(st))
                /\ (k > 0 /\ C27_Valid(SubSeq(st, 1, k - 1))) =>
                     cdc_frame' = to_usb_response(
                                    from_str(C27_Text(SubSeq(st, 1, k - 1))))
                /\ (uart_rx_.num_newlines = 0 \/ st = <<>>) =>
                     (uart_rx_' = uart_rx_ /\ cdc_frame' = <<>>)]_vars

\* C27 witness: cdc_process took the line with the bad checksum out of the
\* buffer, relayed nothing, and the valid line behind it is still whole
C27_Witness ==
    /\ ~cdc_rom
    /\ ~in_rom_
    /\ cdc_frame = <<>>
    /\ cdc_drained = SubSeq(BadFrame(STR_ok), 1, Len(BadFrame(STR_ok)) - 1)
    /\ Stored(uart_rx_) = Frame(STR_ok)
    /\ read_line(uart_rx_, <<>>).line = STR_ok


\* ---------------------------------------------------------------------
\* C28: the relay of received lines to the host

RECURSIVE C28_IsPrefix(_, _)
C28_IsPrefix(a, b) ==
    \/ a = <<>>
    \/ /\ b # <<>>
       /\ Head(a) = Head(b)
       /\ C28_IsPrefix(Tail(a), Tail(b))

\* the frame of a line that passes validation
C28_Frame(l) == to_usb_response(from_str(C27_Text(l)))

RECURSIVE C28_Frames(_)
C28_Frames(ls) ==
    IF ls = <<>> THEN <<>>
    ELSE <<C28_Frame(Head(ls))>> \o C28_Frames(Tail(ls))

\* the received lines no byte of which was dropped and which pass validation
C28_WholeValid ==
    LET sel == SelectSeq(rx_log, LAMBDA e : e.whole /\ C27_Valid(e.pushed))
    IN  [i \in 1..Len(sel) |-> sel[i].pushed]

\* the runs of stored bytes that end at a stored newline and pass validation
C28_StoredValid ==
    LET sel == SelectSeq(rx_log, LAMBDA e : e.lf_stored /\ C27_Valid(e.stored))
    IN  [i \in 1..Len(sel) |-> sel[i].stored]

\* the lines a frame may be expected for
C28_MaxFrames == MaxPieces \div 2

\* C28 as stated: the frames relayed are frames of the lines received whole
\* and valid, in their order, and each such line's frame is relayed in the
\* end
C28_WholeLinesRelayed ==
    /\ [](C28_IsPrefix(relayed, C28_Frames(C28_WholeValid)))
    /\ \A n \in 1..C28_MaxFrames :
         (Len(C28_WholeValid) >= n) ~> (Len(relayed) >= n)

\* C28: outside ROM mode and with no host command in progress, for any
\* interleaving of the interrupt handler's pushes with the polling loop,
\* every run of stored bytes that ends at a stored newline and passes
\* validation is relayed in the end as one frame, the frames in the order of
\* the lines; a run that fails validation gives no frame and does not hold
\* up the lines behind it.  A line received whole is such a run if it is the
\* first line or the newline of the line before it was stored; behind a line
\* whose newline was dropped it is stored joined to what is left of that line.
\* (A pass of cdc_process does to uart_rx_ what CdcTakeLine does, the step the
\* fairness of SpecRelay is about.)
C28_StoredLinesRelayed ==
    /\ [](/\ C28_IsPrefix(relayed, C28_Frames(C28_StoredValid))
          /\ read_line(uart_rx_, <<>>).b
               = IF ENABLED CdcTakeLine
                 THEN read_line_scan(uart_rx_, 0, read_available(uart_rx_), <<>>).b
                 ELSE uart_rx_
          /\ \A i \in 1..Len(rx_log) :
               (rx_log[i].whole /\ (i = 1 \/ rx_log[i - 1].lf_stored)) =>
                 (rx_log[i].lf_stored /\ rx_log[i].stored = rx_log[i].pushed))
    /\ \A n \in 1..C28_MaxFrames :
         (Len(C28_StoredValid) >= n) ~> (Len(relayed) >= n)

\* C28 witness: two valid lines with a failing line between them were
\* received whole, and both frames were relayed
C28_Witness ==
    /\ Len(rx_log) = 3
    /\ rx_log[1].whole /\ C27_Valid(rx_log[1].pushed)
    /\ rx_log[2].whole /\ ~C27_Valid(rx_log[2].pushed)
    /\ rx_log[3].whole /\ C27_Valid(rx_log[3].pushed)
    /\ relayed = <<C28_Frame(rx_log[1].pushed), C28_Frame(rx_log[3].pushed)>>
    /\ Stored(uart_rx_) = <<>>

\* ---------------------------------------------------------------------------
\* Newline counter never below the stored newlines (SpecBuf)
\* ---------------------------------------------------------------------------
C29_AtLeastStored ==
    rb.num_newlines >= CountByte(Stored(rb), LF)

C29_NoWrap ==
    [][/\ rb'.num_newlines <= rb.num_newlines + 1
       /\ rb'.num_newlines < rb.num_newlines => rb.num_newlines > 0]_vars

\* C29: in every reachable state of the ring buffer, under any interleaving
\* of push, read_line, read_buf and clear, the newline counter is at least
\* the number of '\n' bytes stored, and no step takes the unsigned counter
\* from zero to its top value: it grows by at most one and shrinks only from
\* a positive value.
C29_CounterCoversStored == []C29_AtLeastStored /\ C29_NoWrap

\* C29 witness: a newline was dropped on a full buffer and counted, a read
\* has since consumed a stored newline and decremented the counter, and the
\* counter still exceeds the newlines stored.
C29_Witness ==
    /\ rl_pc = "idle"
    /\ dropped > 0
    /\ CountByte(taken, LF) > 0
    /\ CountByte(Stored(rb), LF) > 0
    /\ rb.num_newlines > CountByte(Stored(rb), LF)

\* ---------------------------------------------------------------------------
\* A full buffer in line mode (SpecBufLine)
\* ---------------------------------------------------------------------------
C30_Full == read_available(rb) = BufferSize(rb) - 1

C30_HoldsNewline == CountByte(Stored(rb), LF) > 0

\* a push onto a buffer with free space stores its byte behind the others
C30_FreePushAccepted ==
    [][(/\ ~C30_Full
        /\ (accepted' # accepted \/ dropped' # dropped))
       => (/\ dropped' = dropped
           /\ Len(accepted') = Len(accepted) + 1
           /\ Stored(rb') = Append(Stored(rb), accepted'[Len(accepted')]))]_vars

\* a full buffer without a newline keeps its bytes, and every push is dropped
C30_StaysStuck ==
    [][(C30_Full /\ ~C30_HoldsNewline)
       => (/\ Stored(rb') = Stored(rb)
           /\ accepted' = accepted)]_vars

\* C30 as stated: with the consumer calling read_line forever and the
\* producer pushing, whenever the buffer is full it eventually has free space
\* again, and a push onto the free space is accepted.
C30_NeverStuck ==
    /\ C30_Full ~> ~C30_Full
    /\ C30_FreePushAccepted

\* C30 amended: with the consumer calling read_line forever and the producer
\* pushing, whenever the buffer is full and holds a newline byte it
\* eventually has free space again, and a push onto the free space is
\* accepted; a full buffer holding no newline byte is never drained by
\* read_line: its bytes stay and every later push is dropped.
C30_StuckOnlyWithoutNewline ==
    /\ (C30_Full /\ C30_HoldsNewline) ~> ~C30_Full
    /\ C30_FreePushAccepted
    /\ C30_StaysStuck

\* C30 witness: the buffer was full with a newline in it (a push was
\* dropped), read_line took a line out, and a push after that was accepted:
\* more bytes were stored than the buffer holds at once.
C30_Witness ==
    /\ lineOnly
    /\ rl_pc = "idle"
    /\ dropped > 0
    /\ CountByte(taken, LF) > 0
    /\ Len(accepted) > BufferSize(rb) - 1
    /\ ~C30_Full

====
